---- MODULE Spec2Model ----
(***************************************************************************)
(* Model of the PX-M1UR receiver driver, src/driver/m1ur_device.c.         *)
(*                                                                         *)
(* Part 1, the stream synchronizer: m1ur_device_stream_process and         *)
(* m1ur_device_stream_handler working on struct m1ur_stream_context.       *)
(* Bytes are naturals 0..255; a C buffer is a sequence, a C pointer into   *)
(* it is a 0-based offset (element k of the buffer is mem[k + 1]).         *)
(***************************************************************************)
EXTENDS Integers, Sequences, FiniteSets, TLC

\* #define M1UR_DEVICE_TS_SYNC_COUNT 4
M1UR_DEVICE_TS_SYNC_COUNT == 4

\* the literal 188 of the source: the size of one transport packet
TS_PACKET_SIZE == 188

\* #define M1UR_DEVICE_TS_SYNC_SIZE (188 * M1UR_DEVICE_TS_SYNC_COUNT)
M1UR_DEVICE_TS_SYNC_SIZE == TS_PACKET_SIZE * M1UR_DEVICE_TS_SYNC_COUNT

\* the literal 0x47 of the source: the marker byte of a packet
TS_SYNC_BYTE == 71

(***************************************************************************)
(* Bounds of the checked instances.                                        *)
(***************************************************************************)
\* handler invocations in one run
MaxChunks == 3

\* sessions open at the same time
MaxSessions == 2

VARIABLES
    \* ---- struct m1ur_stream_context and what the synchronizer did
    remain_buf,     \* stream_ctx->remain_buf, M1UR_DEVICE_TS_SYNC_SIZE bytes
    remain_len,     \* stream_ctx->remain_len
    put_stream,     \* the blocks handed to ptx_chrdev_put_stream so far, in order
    fed,            \* the chunks handed to the handler so far, in order
    last_put,       \* the blocks handed to ptx_chrdev_put_stream by the last invocation
    session,        \* how many chunks were handled (fed) and blocks emitted (put)
                    \* when itedtv_bus_start_streaming last succeeded
    \* ---- struct m1ur_device and the hardware behind it
    kref,           \* m1ur->kref, the reference count
    available,      \* m1ur->available
    sessions,       \* opens that succeeded and were not released yet
    teardown,       \* how often each call of m1ur_device_release was made
    chip,           \* what the last successful accesses set in the hardware
    streaming,      \* the bus streams into m1ur_device_stream_handler
    current_system, \* chrdev->current_system, kept by the chrdev layer
    group_destroyed,\* the chrdev group is not there: not registered, or destroyed
    \* ---- the thread of m1ur_device_term
    term_pc,
    \* ---- the thread of the chrdev operations (one operation at a time)
    ctl_pc,         \* "idle", or where the running operation stands
    op,             \* the operation running, or the last one that ran
    log,            \* the hardware accesses of op, in order
    first_fail,     \* index in log of op's first failed access, 0 when none failed
    last_ok,        \* whether op's last access succeeded
    ret,            \* op's return value
    tune_system,    \* params->system of m1ur_chrdev_tune
    tune_i,         \* the poll counter i of m1ur_chrdev_tune
    tuner_locked,   \* the local tuner_locked of m1ur_chrdev_tune
    sid             \* m1ur_chrdev_set_stream_id: stream_id, i, tsid, tsid2, and
                    \* what it did: the reads of each poll, the result of the
                    \* last read of each, the ID it programmed

syncVars == <<remain_buf, put_stream, fed, last_put, session>>

refVars == <<kref, sessions, teardown>>

envVars == <<available, current_system, group_destroyed, term_pc>>

ctlVars == <<ctl_pc, op, log, first_fail, last_ok, ret>>

tuneVars == <<tune_system, tune_i, tuner_locked>>

vars == <<syncVars, remain_len, refVars, envVars, chip, streaming, ctlVars,
          tuneVars, sid>>

(***************************************************************************)
(* Helpers on sequences.                                                   *)
(***************************************************************************)
\* n copies of byte b
Fill(n, b) == [k \in 1..n |-> b]

RECURSIVE Concat(_)
Concat(ss) == IF ss = <<>> THEN <<>> ELSE Head(ss) \o Concat(Tail(ss))

\* memcpy(dst + doff, src + soff, n)
Memcpy(dst, doff, src, soff, n) ==
    [k \in 1..Len(dst) |->
        IF k > doff /\ k <= doff + n THEN src[soff + (k - doff)] ELSE dst[k]]

(***************************************************************************)
(* m1ur_device_stream_process                                              *)
(***************************************************************************)
\* Faulty variant of SyncScan that tests the marker of slot 0 for every slot
\* (p[0] in place of p[i * 188]); C1 must not hold of it.
RECURSIVE SyncScan_FirstSlotOnly(_, _, _, _)
SyncScan_FirstSlotOnly(mem, p, remain, i) ==
    IF (i + 1) * TS_PACKET_SIZE <= remain
    THEN IF mem[p + 1] # TS_SYNC_BYTE
         THEN [i |-> i, sync_remain |-> FALSE]
         ELSE SyncScan_FirstSlotOnly(mem, p, remain, i + 1)
    ELSE [i |-> i, sync_remain |-> TRUE]

\* Faulty variant of SyncScan with a strict bound test ((i + 1) * 188 < remain);
\* C5 must not hold of it.
RECURSIVE SyncScan_StrictBound(_, _, _, _)
SyncScan_StrictBound(mem, p, remain, i) ==
    IF (i + 1) * TS_PACKET_SIZE < remain
    THEN IF mem[p + i * TS_PACKET_SIZE + 1] # TS_SYNC_BYTE
         THEN [i |-> i, sync_remain |-> FALSE]
         ELSE SyncScan_StrictBound(mem, p, remain, i + 1)
    ELSE [i |-> i, sync_remain |-> TRUE]

\* the inner while (true) loop: count the markers at 188-byte spacing from p
RECURSIVE SyncScan(_, _, _, _)
SyncScan(mem, p, remain, i) ==
    IF (i + 1) * TS_PACKET_SIZE <= remain
    THEN IF mem[p + i * TS_PACKET_SIZE + 1] # TS_SYNC_BYTE
         THEN [i |-> i, sync_remain |-> FALSE]
         ELSE SyncScan(mem, p, remain, i + 1)
    ELSE [i |-> i, sync_remain |-> TRUE]

\* Faulty variant of SyncSkip that advances two bytes at a time (p += 2,
\* remain -= 2); C6 must not hold of it.
SyncSkip_TwoBytes(mem, p, remain) ==
    LET synced == { d \in 0..(remain - 1) :
                      /\ d % 2 = 0
                      /\ SyncScan(mem, p + d, remain - d, 0).i
                             >= M1UR_DEVICE_TS_SYNC_COUNT }
    IN  IF synced = {} THEN remain
        ELSE CHOOSE d \in synced : \A e \in synced : d <= e

\* The iterations of the outer loop that take the i < 4 branch (p++, remain--,
\* continue) change nothing but p and remain, and go on until a position where
\* the scan counts 4 markers or remain reaches 0. SyncSkip is the number of such
\* iterations in a row from p: the least d < remain at which the scan counts at
\* least M1UR_DEVICE_TS_SYNC_COUNT markers, and remain when there is none.
SyncSkip(mem, p, remain) ==
    LET synced == { d \in 0..(remain - 1) :
                      SyncScan(mem, p + d, remain - d, 0).i
                          >= M1UR_DEVICE_TS_SYNC_COUNT }
    IN  IF synced = {} THEN remain
        ELSE CHOOSE d \in synced : \A e \in synced : d <= e

\* the outer while (remain) loop; put collects the ptx_chrdev_put_stream calls.
\* The result is the final (*buf, *len) and the calls made.
RECURSIVE StreamProcess(_, _, _, _)
StreamProcess(mem, p, remain, put) ==
    LET d == SyncSkip(mem, p, remain)
        q == p + d
        left == remain - d
    IN  IF left = 0
        THEN [p |-> q, remain |-> left, put |-> put]
        ELSE LET s == SyncScan(mem, q, left, 0)
                 n == TS_PACKET_SIZE * s.i
             IN  IF s.sync_remain
                 THEN [p |-> q + n, remain |-> left - n,
                       put |-> Append(put, SubSeq(mem, q + 1, q + n))]
                 ELSE StreamProcess(mem, q + n, left - n,
                                    Append(put, SubSeq(mem, q + 1, q + n)))

(***************************************************************************)
(* m1ur_device_stream_handler                                              *)
(***************************************************************************)
\* lines 187-192: process the chunk from offset p, keep what is left
HandlerTail(rbuf, rlen, buf, p, remain, put) ==
    LET r == StreamProcess(buf, p, remain, put)
    IN  IF r.remain # 0
        THEN [remain_buf |-> Memcpy(rbuf, 0, buf, r.p, r.remain),
              remain_len |-> r.remain, put |-> r.put]
        ELSE [remain_buf |-> rbuf, remain_len |-> rlen, put |-> r.put]

\* Faulty variant of StreamHandler that merges only when the carry-over and the
\* chunk exceed the buffer (> in place of >=); C3 must not hold of it.
StreamHandler_StrictMerge(rbuf, rlen, buf) ==
    LET len == Len(buf)
    IN  IF rlen # 0
        THEN IF rlen + len > M1UR_DEVICE_TS_SYNC_SIZE
             THEN LET t == M1UR_DEVICE_TS_SYNC_SIZE - rlen
                      filled == Memcpy(rbuf, rlen, buf, 0, t)
                      c == StreamProcess(filled, 0, M1UR_DEVICE_TS_SYNC_SIZE, <<>>)
                  IN  IF c.remain = 0
                      THEN HandlerTail(filled, 0, buf, t, len - t, c.put)
                      ELSE HandlerTail(filled, 0, buf, 0, len, c.put)
             ELSE [remain_buf |-> Memcpy(rbuf, rlen, buf, 0, len),
                   remain_len |-> rlen + len, put |-> <<>>]
        ELSE HandlerTail(rbuf, rlen, buf, 0, len, <<>>)

\* Faulty variant of StreamHandler that, after the merged buffer was consumed,
\* processes the chunk from its first byte again (no p += t, remain -= t);
\* C23 must not hold of it.
StreamHandler_NoAdvance(rbuf, rlen, buf) ==
    LET len == Len(buf)
    IN  IF rlen # 0
        THEN IF rlen + len >= M1UR_DEVICE_TS_SYNC_SIZE
             THEN LET t == M1UR_DEVICE_TS_SYNC_SIZE - rlen
                      filled == Memcpy(rbuf, rlen, buf, 0, t)
                      c == StreamProcess(filled, 0, M1UR_DEVICE_TS_SYNC_SIZE, <<>>)
                  IN  HandlerTail(filled, 0, buf, 0, len, c.put)
             ELSE [remain_buf |-> Memcpy(rbuf, rlen, buf, 0, len),
                   remain_len |-> rlen + len, put |-> <<>>]
        ELSE HandlerTail(rbuf, rlen, buf, 0, len, <<>>)

\* lines 155-195: the carry-over merge, then the chunk itself
StreamHandler(rbuf, rlen, buf) ==
    LET len == Len(buf)
    IN  IF rlen # 0
        THEN IF rlen + len >= M1UR_DEVICE_TS_SYNC_SIZE
             THEN LET t == M1UR_DEVICE_TS_SYNC_SIZE - rlen
                      filled == Memcpy(rbuf, rlen, buf, 0, t)
                      c == StreamProcess(filled, 0, M1UR_DEVICE_TS_SYNC_SIZE, <<>>)
                  IN  IF c.remain = 0
                      THEN HandlerTail(filled, 0, buf, t, len - t, c.put)
                      ELSE HandlerTail(filled, 0, buf, 0, len, c.put)
             ELSE [remain_buf |-> Memcpy(rbuf, rlen, buf, 0, len),
                   remain_len |-> rlen + len, put |-> <<>>]
        ELSE HandlerTail(rbuf, rlen, buf, 0, len, <<>>)

(***************************************************************************)
(* The chunks the transport delivers.                                      *)
(***************************************************************************)
Bytes == {0, TS_SYNC_BYTE}

\* the first t bytes of a packet with payload byte b
PacketHead(t, b) == [k \in 1..t |-> IF k = 1 THEN TS_SYNC_BYTE ELSE b]

Packet(b) == PacketHead(TS_PACKET_SIZE, b)

RECURSIVE Packets(_, _)
Packets(n, b) == IF n = 0 THEN <<>> ELSE Packet(b) \o Packets(n - 1, b)

HalfPacket == TS_PACKET_SIZE \div 2

\* h payload bytes b (the rest of a packet cut by the previous chunk), g garbage
\* bytes gb, n whole packets, the first t bytes of one more packet
Chunk(h, g, gb, n, t, b) ==
    Fill(h, b) \o Fill(g, gb) \o Packets(n, b) \o PacketHead(t, b)

\* whole packets only: fewer than M1UR_DEVICE_TS_SYNC_COUNT, exactly that, more
AlignedChunks == { Chunk(0, 0, 0, n, 0, 0) : n \in {1, 3, 4, 5} }

\* chunks that cut a packet in two
CutChunks ==
    { Chunk(0, 0, 0, 4, HalfPacket, 0), Chunk(0, 0, 0, 0, HalfPacket, 0),
      Chunk(HalfPacket, 0, 0, 3, 0, 0), Chunk(HalfPacket, 0, 0, 0, 0, 0) }

\* chunks that start with garbage, and payloads full of marker bytes
GarbageChunks ==
    { Chunk(0, 3, 0, 4, 0, 0), Chunk(0, 3, 0, 4, 0, TS_SYNC_BYTE),
      Chunk(0, 3, TS_SYNC_BYTE, 4, 0, TS_SYNC_BYTE),
      Chunk(0, 1, TS_SYNC_BYTE, 4, 0, 0), Chunk(0, 1, 0, 0, 0, 0),
      Chunk(0, 0, 0, 4, 0, TS_SYNC_BYTE) }

Chunks == AlignedChunks \cup CutChunks \cup GarbageChunks

(***************************************************************************)
(* Part 2, the device: power, chip chain, open and release, capture,       *)
(* reference counting and teardown.                                        *)
(*                                                                         *)
(* A hardware access is named by a string.  An access either succeeds or   *)
(* fails with a transport error; one that fails changes nothing in the     *)
(* hardware.  What an operation did is a trace: the accesses it attempted, *)
(* in order, each with its result.                                         *)
(***************************************************************************)
OK == "0"
EIO == "-EIO"
EAGAIN == "-EAGAIN"
EINVAL == "-EINVAL"

PTX_ISDB_T_SYSTEM == "ISDB_T"
PTX_ISDB_S_SYSTEM == "ISDB_S"
PTX_UNSPECIFIED_SYSTEM == "UNSPECIFIED"
Systems == {PTX_ISDB_T_SYSTEM, PTX_ISDB_S_SYSTEM, PTX_UNSPECIFIED_SYSTEM}

Acc(a, ok) == [a |-> a, ok |-> ok]

\* a sequence of accesses each checked by the caller: the k-th fails (k = 0:
\* none does) and nothing is attempted after it
Checked(seq, k) ==
    [j \in 1..(IF k = 0 THEN Len(seq) ELSE k) |-> Acc(seq[j], j # k)]

\* a sequence of accesses whose results the caller ignores: those of F fail
BestEffort(seq, F) == [j \in 1..Len(seq) |-> Acc(seq[j], j \notin F)]

\* the failure index local to accesses lo+1 .. lo+n of a longer sequence
Stage(k, lo, n) == IF k > lo /\ k <= lo + n THEN k - lo ELSE 0

Names(tr) == [j \in 1..Len(tr) |-> tr[j].a]

FirstFail(tr) ==
    IF \A j \in 1..Len(tr) : tr[j].ok THEN 0
    ELSE CHOOSE j \in 1..Len(tr) :
            ~tr[j].ok /\ \A e \in 1..(j - 1) : tr[e].ok

\* what a successful access sets in the hardware
Effect(c, a) ==
    CASE a = "it930x.gpio2:=1" -> [c EXCEPT !.gpio2 = TRUE]
      [] a = "it930x.gpio2:=0" -> [c EXCEPT !.gpio2 = FALSE]
      [] a = "it930x.gpio3:=1" -> [c EXCEPT !.gpio3 = TRUE]
      [] a = "it930x.gpio3:=0" -> [c EXCEPT !.gpio3 = FALSE]
      [] a = "tc_t.ts_pins:=1" -> [c EXCEPT !.pins_t = TRUE]
      [] a = "tc_t.ts_pins:=0" -> [c EXCEPT !.pins_t = FALSE]
      [] a = "tc_s.ts_pins:=1" -> [c EXCEPT !.pins_s = TRUE]
      [] a = "tc_s.ts_pins:=0" -> [c EXCEPT !.pins_s = FALSE]
      [] a = "tc_t.sleep:=1" -> [c EXCEPT !.sleep_t = TRUE]
      [] a = "tc_t.sleep:=0" -> [c EXCEPT !.sleep_t = FALSE]
      [] a = "tc_s.sleep:=1" -> [c EXCEPT !.sleep_s = TRUE]
      [] a = "tc_s.sleep:=0" -> [c EXCEPT !.sleep_s = FALSE]
      [] OTHER -> c

RECURSIVE ApplyTrace(_, _)
ApplyTrace(c, tr) ==
    IF tr = <<>> THEN c
    ELSE ApplyTrace(IF Head(tr).ok THEN Effect(c, Head(tr).a) ELSE c, Tail(tr))

(***************************************************************************)
(* m1ur_backend_set_power, m1ur_backend_init, m1ur_backend_term            *)
(***************************************************************************)
PowerOnSeq == << "it930x.gpio3:=0", "it930x.gpio2:=1" >>
PowerOffSeq == << "it930x.gpio2:=0", "it930x.gpio3:=1" >>

\* Faulty variant of m1ur_backend_set_power that does not return after a failed
\* power-on write; C15 must not hold of it.
m1ur_backend_set_power_Unchecked(state, avail, k, F) ==
    IF ~state /\ ~avail
    THEN [tr |-> <<>>, ret |-> OK]
    ELSE IF state
         THEN [tr |-> BestEffort(PowerOnSeq, IF k = 0 THEN {} ELSE {k}),
               ret |-> IF k = 0 THEN OK ELSE EIO]
         ELSE [tr |-> BestEffort(PowerOffSeq, F), ret |-> OK]

\* Faulty variant of m1ur_backend_set_power that returns at the first power-off
\* write that fails, with its error; C16 must not hold of it.
m1ur_backend_set_power_CheckedOff(state, avail, k, F) ==
    IF ~state /\ ~avail
    THEN [tr |-> <<>>, ret |-> OK]
    ELSE IF state
         THEN [tr |-> Checked(PowerOnSeq, k), ret |-> IF k = 0 THEN OK ELSE EIO]
         ELSE IF F = {}
              THEN [tr |-> BestEffort(PowerOffSeq, F), ret |-> OK]
              ELSE [tr |-> Checked(PowerOffSeq,
                                   CHOOSE j \in F : \A e \in F : j <= e),
                    ret |-> EIO]

\* state: the requested power state; avail: what atomic_read(&m1ur->available)
\* returns; k: the write of PowerOnSeq that fails; F: the writes of PowerOffSeq
\* that fail
m1ur_backend_set_power(state, avail, k, F) ==
    IF ~state /\ ~avail
    THEN [tr |-> <<>>, ret |-> OK]
    ELSE IF state
         THEN [tr |-> Checked(PowerOnSeq, k), ret |-> IF k = 0 THEN OK ELSE EIO]
         ELSE [tr |-> BestEffort(PowerOffSeq, F), ret |-> OK]

BackendInitSeq == << "tc_t.init", "tc_s.init", "r850.init", "rt710.init" >>

\* Faulty variant of m1ur_backend_init that initialises the tuners before the
\* demodulators; C17 must not hold of it.
m1ur_backend_init_TunersFirst(k) ==
    [tr |-> Checked(<< "r850.init", "rt710.init", "tc_t.init", "tc_s.init" >>, k),
     ret |-> IF k = 0 THEN OK ELSE EIO]

m1ur_backend_init(k) ==
    [tr |-> Checked(BackendInitSeq, k), ret |-> IF k = 0 THEN OK ELSE EIO]

BackendTermSeq == << "r850.term", "rt710.term", "tc_t.term", "tc_s.term" >>

m1ur_backend_term == [tr |-> BestEffort(BackendTermSeq, {}), ret |-> OK]

(***************************************************************************)
(* m1ur_chrdev_open                                                        *)
(***************************************************************************)
\* lines 258-265: the access whose failure goes to fail_backend
OpenSeqT == << "tc_t.regs(tc_init_t)" >>

\* lines 267-324: the accesses whose failure returns at once
OpenSeqRest ==
    << "tc_t.ts_pins:=0", "tc_t.sleep:=1", "r850.set_system",
       "tc_s.regs(tc_init_s)", "tc_s.ts_pins:=0", "tc_s.sleep:=1" >>

OpenAccesses ==
    Len(PowerOnSeq) + Len(BackendInitSeq) + Len(OpenSeqT) + Len(OpenSeqRest)

\* Faulty variant of OpenRun that has taken the reference before the last
\* group of accesses, so that a failure there returns with it; C24 must not
\* hold of it.
OpenRun_RefBeforeRest(avail, k, F) ==
    LET n1 == Len(PowerOnSeq)
        n2 == Len(BackendInitSeq)
        n3 == Len(OpenSeqT)
        n4 == Len(OpenSeqRest)
        pw == m1ur_backend_set_power(TRUE, avail, Stage(k, 0, n1), {})
        bi == m1ur_backend_init(Stage(k, n1, n2))
        rt == Checked(OpenSeqT, Stage(k, n1 + n2, n3))
        rr == Checked(OpenSeqRest, Stage(k, n1 + n2 + n3, n4))
        off == m1ur_backend_set_power(FALSE, avail, 0, F)
    IN  IF pw.ret # OK
        THEN [tr |-> pw.tr, ret |-> pw.ret, got_ref |-> FALSE]
        ELSE IF bi.ret # OK
        THEN [tr |-> pw.tr \o bi.tr \o off.tr, ret |-> bi.ret, got_ref |-> FALSE]
        ELSE IF Stage(k, n1 + n2, n3) # 0
        THEN [tr |-> pw.tr \o bi.tr \o rt \o m1ur_backend_term.tr \o off.tr,
              ret |-> EIO, got_ref |-> FALSE]
        ELSE IF Stage(k, n1 + n2 + n3, n4) # 0
        THEN [tr |-> pw.tr \o bi.tr \o rt \o rr, ret |-> EIO, got_ref |-> TRUE]
        ELSE [tr |-> pw.tr \o bi.tr \o rt \o rr, ret |-> OK, got_ref |-> TRUE]

\* k: which of the accesses of open fails, counted over the four sequences
\* (0: none); F: the power-off writes that fail on the way out.
\* got_ref: whether kref_get was called.
OpenRun(avail, k, F) ==
    LET n1 == Len(PowerOnSeq)
        n2 == Len(BackendInitSeq)
        n3 == Len(OpenSeqT)
        n4 == Len(OpenSeqRest)
        pw == m1ur_backend_set_power(TRUE, avail, Stage(k, 0, n1), {})
        bi == m1ur_backend_init(Stage(k, n1, n2))
        rt == Checked(OpenSeqT, Stage(k, n1 + n2, n3))
        rr == Checked(OpenSeqRest, Stage(k, n1 + n2 + n3, n4))
        off == m1ur_backend_set_power(FALSE, avail, 0, F)
    IN  IF pw.ret # OK
        THEN \* goto fail_backend_power
             [tr |-> pw.tr, ret |-> pw.ret, got_ref |-> FALSE]
        ELSE IF bi.ret # OK
        THEN \* goto fail_backend_init
             [tr |-> pw.tr \o bi.tr \o off.tr, ret |-> bi.ret, got_ref |-> FALSE]
        ELSE IF Stage(k, n1 + n2, n3) # 0
        THEN \* goto fail_backend
             [tr |-> pw.tr \o bi.tr \o rt \o m1ur_backend_term.tr \o off.tr,
              ret |-> EIO, got_ref |-> FALSE]
        ELSE IF Stage(k, n1 + n2 + n3, n4) # 0
        THEN \* return ret
             [tr |-> pw.tr \o bi.tr \o rt \o rr, ret |-> EIO, got_ref |-> FALSE]
        ELSE [tr |-> pw.tr \o bi.tr \o rt \o rr, ret |-> OK, got_ref |-> TRUE]

(***************************************************************************)
(* kref_put and m1ur_device_release                                        *)
(***************************************************************************)
\* Faulty variant of KrefPut that tests the count before it decrements it;
\* C7 must not hold of it.
KrefPut_TestBeforeDec(count) ==
    [count |-> count - 1, release |-> (count - 1 = 0) \/ (count - 1 = 1)]

\* kref_put(&m1ur->kref, m1ur_device_release): decrement, and call release
\* when the count reached zero
KrefPut(count) == [count |-> count - 1, release |-> (count - 1 = 0)]

\* m1ur_device_release: one more call of each of its steps
DeviceRelease(td) ==
    [release |-> td.release + 1,
     it930x_term |-> td.it930x_term + 1,
     bus_term |-> td.bus_term + 1,
     kfree |-> td.kfree + 1,
     put_device |-> td.put_device + 1,
     complete |-> td.complete + 1]

(***************************************************************************)
(* m1ur_chrdev_start_capture, m1ur_chrdev_stop_capture                     *)
(***************************************************************************)
PinsOn(sys) ==
    IF sys = PTX_ISDB_T_SYSTEM THEN << "tc_t.ts_pins:=1" >>
    ELSE IF sys = PTX_ISDB_S_SYSTEM THEN << "tc_s.ts_pins:=1" >>
    ELSE <<>>

PinsOff(sys) ==
    IF sys = PTX_ISDB_T_SYSTEM THEN << "tc_t.ts_pins:=0" >>
    ELSE IF sys = PTX_ISDB_S_SYSTEM THEN << "tc_s.ts_pins:=0" >>
    ELSE <<>>

StartFailures == {"none", "purge", "pins", "bus"}

\* Faulty variant of StartCaptureRun without the rollback after fail_bus;
\* C9 must not hold of it.
StartCaptureRun_NoRollback(sys, f, rb) ==
    LET purge == Checked(<< "it930x.purge_psb" >>, IF f = "purge" THEN 1 ELSE 0)
        on == Checked(PinsOn(sys), IF f = "pins" THEN 1 ELSE 0)
        bus == Checked(<< "bus.start_streaming" >>, IF f = "bus" THEN 1 ELSE 0)
        off == BestEffort(PinsOff(sys), IF rb THEN {1} ELSE {})
    IN  IF f = "purge"
        THEN [tr |-> purge, ret |-> EIO, reset |-> FALSE, started |-> FALSE]
        ELSE IF f = "pins"
        THEN [tr |-> purge \o on \o off, ret |-> EIO, reset |-> FALSE,
              started |-> FALSE]
        ELSE IF f = "bus"
        THEN [tr |-> purge \o on \o bus, ret |-> EIO, reset |-> TRUE,
              started |-> FALSE]
        ELSE [tr |-> purge \o on \o bus, ret |-> OK, reset |-> TRUE,
              started |-> TRUE]

\* Faulty variant of StartCaptureRun that leaves stream_ctx->remain_len as it
\* is; C21 must not hold of it.
StartCaptureRun_NoReset(sys, f, rb) ==
    LET purge == Checked(<< "it930x.purge_psb" >>, IF f = "purge" THEN 1 ELSE 0)
        on == Checked(PinsOn(sys), IF f = "pins" THEN 1 ELSE 0)
        bus == Checked(<< "bus.start_streaming" >>, IF f = "bus" THEN 1 ELSE 0)
        off == BestEffort(PinsOff(sys), IF rb THEN {1} ELSE {})
    IN  IF f = "purge"
        THEN [tr |-> purge, ret |-> EIO, reset |-> FALSE, started |-> FALSE]
        ELSE IF f = "pins"
        THEN [tr |-> purge \o on \o off, ret |-> EIO, reset |-> FALSE,
              started |-> FALSE]
        ELSE IF f = "bus"
        THEN [tr |-> purge \o on \o bus \o off, ret |-> EIO, reset |-> FALSE,
              started |-> FALSE]
        ELSE [tr |-> purge \o on \o bus, ret |-> OK, reset |-> FALSE,
              started |-> TRUE]

\* sys: chrdev->current_system; f: the step that fails ("pins" only when sys
\* has pins to enable); rb: the pin disable of the rollback fails.
\* reset: stream_ctx->remain_len was set to 0; started: the bus streams.
StartCaptureRun(sys, f, rb) ==
    LET purge == Checked(<< "it930x.purge_psb" >>, IF f = "purge" THEN 1 ELSE 0)
        on == Checked(PinsOn(sys), IF f = "pins" THEN 1 ELSE 0)
        bus == Checked(<< "bus.start_streaming" >>, IF f = "bus" THEN 1 ELSE 0)
        off == BestEffort(PinsOff(sys), IF rb THEN {1} ELSE {})
    IN  IF f = "purge"
        THEN \* goto fail
             [tr |-> purge, ret |-> EIO, reset |-> FALSE, started |-> FALSE]
        ELSE IF f = "pins"
        THEN \* goto fail_tc
             [tr |-> purge \o on \o off, ret |-> EIO, reset |-> FALSE,
              started |-> FALSE]
        ELSE IF f = "bus"
        THEN \* goto fail_bus
             [tr |-> purge \o on \o bus \o off, ret |-> EIO, reset |-> TRUE,
              started |-> FALSE]
        ELSE [tr |-> purge \o on \o bus, ret |-> OK, reset |-> TRUE,
              started |-> TRUE]

\* Faulty variant of StopCapturePins that does not look at the availability
\* flag; C8 must not hold of it.
StopCapturePins_Unchecked(avail, sys, rb) ==
    BestEffort(PinsOff(sys), IF rb THEN {1} ELSE {})

\* lines 790-806 of m1ur_chrdev_stop_capture: what follows stop-streaming.
\* avail: what atomic_read(&m1ur->available) returns; rb: the disable fails.
StopCapturePins(avail, sys, rb) ==
    IF ~avail THEN <<>>
    ELSE BestEffort(PinsOff(sys), IF rb THEN {1} ELSE {})

(***************************************************************************)
(* m1ur_chrdev_tune                                                        *)
(***************************************************************************)
\* i = 50; while (i--) ...
TUNE_LOCK_POLLS == 50

\* Faulty variant of TunePreSeq that wakes the selected demodulator before it
\* puts the other one to sleep; C12 must not hold of it.
TunePreSeq_WakeFirst(sys) ==
    IF sys = PTX_ISDB_T_SYSTEM
    THEN << "tc_t.reg[0x47]:=0x30", "tc_t.agc:=0", "tc_t.sleep:=0",
            "tc_t.reg[0x0e]:=0x77", "tc_t.reg[0x0f]:=0x10",
            "tc_t.reg[0x71]:=0x20", "tc_s.sleep:=1", "tc_t.reg[0x76]:=0x0c",
            "tc_t.reg[0x1f]:=0x30", "r850.wakeup", "r850.set_frequency" >>
    ELSE << "tc_s.agc:=0", "tc_t.reg[0x0e]:=0x11", "tc_t.reg[0x0f]:=0x70",
            "tc_s.sleep:=0", "tc_s.reg[0x07]:=0x77", "tc_s.reg[0x08]:=0x10",
            "tc_t.sleep:=1", "tc_s.reg[0x04]:=0x02", "tc_s.reg[0x8e]:=0x02",
            "tc_t.reg[0x1f]:=0x20", "rt710.set_params" >>

\* lines 375-437 and 492-551: the accesses before the lock poll, each checked
TunePreSeq(sys) ==
    IF sys = PTX_ISDB_T_SYSTEM
    THEN << "tc_t.reg[0x47]:=0x30", "tc_t.agc:=0", "tc_s.sleep:=1",
            "tc_t.reg[0x0e]:=0x77", "tc_t.reg[0x0f]:=0x10",
            "tc_t.reg[0x71]:=0x20", "tc_t.sleep:=0", "tc_t.reg[0x76]:=0x0c",
            "tc_t.reg[0x1f]:=0x30", "r850.wakeup", "r850.set_frequency" >>
    ELSE << "tc_s.agc:=0", "tc_t.reg[0x0e]:=0x11", "tc_t.reg[0x0f]:=0x70",
            "tc_t.sleep:=1", "tc_s.reg[0x07]:=0x77", "tc_s.reg[0x08]:=0x10",
            "tc_s.sleep:=0", "tc_s.reg[0x04]:=0x02", "tc_s.reg[0x8e]:=0x02",
            "tc_t.reg[0x1f]:=0x20", "rt710.set_params" >>

\* r850_is_pll_locked / rt710_is_pll_locked
TunePollAccess(sys) ==
    IF sys = PTX_ISDB_T_SYSTEM THEN "r850.is_pll_locked" ELSE "rt710.is_pll_locked"

\* line 577: an access whose result is ignored (ISDB-S only)
TunePostIgnoredSeq(sys) ==
    IF sys = PTX_ISDB_T_SYSTEM THEN <<>> ELSE << "rt710.get_rf_signal_strength" >>

\* Faulty variant of TunePostSeq that enables AGC for ISDB-T after the three
\* register writes instead of before them; C22 must not hold of it.
TunePostSeq_AgcLast(sys) ==
    IF sys = PTX_ISDB_T_SYSTEM
    THEN << "tc_t.reg[0x71]:=0x01", "tc_t.reg[0x72]:=0x25",
            "tc_t.reg[0x75]:=0x00", "tc_t.agc:=1" >>
    ELSE << "tc_s.agc:=1" >>

\* lines 467-485 and 582-588: the accesses after the lock, each checked
TunePostSeq(sys) ==
    IF sys = PTX_ISDB_T_SYSTEM
    THEN << "tc_t.agc:=1", "tc_t.reg[0x71]:=0x01", "tc_t.reg[0x72]:=0x25",
            "tc_t.reg[0x75]:=0x00" >>
    ELSE << "tc_s.agc:=1" >>

PollResults == {"error", "unlocked", "locked"}

\* Faulty variant of TunePollStep with the loop written while (--i); C10 must
\* not hold of it.
TunePollStep_PreDecrement(cnt, r, locked) ==
    IF cnt - 1 = 0
    THEN [i |-> cnt - 1, polled |-> FALSE, ret |-> OK, locked |-> locked,
          again |-> FALSE]
    ELSE [i |-> cnt - 1, polled |-> TRUE,
          ret |-> IF r = "error" THEN EIO ELSE OK,
          locked |-> IF r = "error" THEN locked ELSE r,
          again |-> r # "locked"]

\* One test of the loop condition while (i--) and, when it holds, one pass of
\* the loop body.  cnt: the value of i; r: what the lock read returns; locked:
\* tuner_locked.  polled: the read was made; again: back to the loop condition.
\* ret is the value of ret after a pass, and is not assigned without one.
TunePollStep(cnt, r, locked) ==
    IF cnt = 0
    THEN [i |-> cnt - 1, polled |-> FALSE, ret |-> OK, locked |-> locked,
          again |-> FALSE]
    ELSE [i |-> cnt - 1, polled |-> TRUE,
          ret |-> IF r = "error" THEN EIO ELSE OK,
          locked |-> IF r = "error" THEN locked ELSE r,
          again |-> r # "locked"]

(***************************************************************************)
(* The state after m1ur_device_init succeeded.                             *)
(***************************************************************************)
(***************************************************************************)
(* m1ur_chrdev_set_stream_id                                               *)
(***************************************************************************)
\* line 643: i = 100, the resolution poll
TSID_RESOLVE_POLLS == 100
\* line 678: i = 100, the verification poll
TSID_VERIFY_POLLS == 100
\* line 642: if (stream_id < 12)
TSID_SLOTS == 12

\* the transport stream IDs the demodulator reports (0: none yet), and the
\* values of the argument stream_id: a slot and a literal ID
TsIds == {0, 16, 17}
StreamIds == {3, 16}

\* what tc90522_tmcc_get_tsid_s returns: an error, or 0 and an ID stored in
\* tsid
ResolveResults ==
    {[ret |-> EIO, id |-> 0], [ret |-> EINVAL, id |-> 0]}
    \cup {[ret |-> OK, id |-> v] : v \in TsIds}
\* what tc90522_get_tsid_s returns: an error, or 0 and an ID stored in tsid2
VerifyResults ==
    {[ret |-> EIO, id |-> 0]} \cup {[ret |-> OK, id |-> v] : v \in TsIds}

\* Faulty variant of SidResolveStep that does not leave the loop on -EINVAL;
\* C18 must not hold of it.
SidResolveStep_NoInvalidBreak(cnt, r, tsid) ==
    IF cnt = 0
    THEN [i |-> cnt - 1, polled |-> FALSE, ret |-> OK, tsid |-> tsid,
          again |-> FALSE]
    ELSE LET rt == r.ret
             id == IF rt = OK THEN r.id ELSE tsid
         IN  [i |-> cnt - 1, polled |-> TRUE, ret |-> rt, tsid |-> id,
              again |-> ~(rt = OK /\ id # 0)]

\* lines 644-651: one test of while (i--) and, when it holds, one pass of the
\* resolution loop.  cnt: the value of i; r: what the read returns; tsid: the
\* local tsid.  ret is the value of ret after a pass.
SidResolveStep(cnt, r, tsid) ==
    IF cnt = 0
    THEN [i |-> cnt - 1, polled |-> FALSE, ret |-> OK, tsid |-> tsid,
          again |-> FALSE]
    ELSE LET rt == r.ret
             id == IF rt = OK THEN r.id ELSE tsid
         IN  [i |-> cnt - 1, polled |-> TRUE, ret |-> rt, tsid |-> id,
              again |-> ~((rt = OK /\ id # 0) \/ rt = EINVAL)]

\* lines 653-663: after the resolution loop; go: the ID is to be programmed
SidResolved(rt, tsid) ==
    IF rt # OK THEN [ret |-> rt, go |-> FALSE]
    ELSE IF tsid = 0 THEN [ret |-> EAGAIN, go |-> FALSE]
    ELSE [ret |-> OK, go |-> TRUE]

\* lines 679-685: one test of while (i--) and, when it holds, one pass of the
\* verification loop
SidVerifyStep(cnt, r, tsid, tsid2) ==
    IF cnt = 0
    THEN [i |-> cnt - 1, polled |-> FALSE, ret |-> OK, tsid2 |-> tsid2,
          stored |-> FALSE, again |-> FALSE]
    ELSE LET rt == r.ret
             id == IF rt = OK THEN r.id ELSE tsid2
         IN  [i |-> cnt - 1, polled |-> TRUE, ret |-> rt, tsid2 |-> id,
              stored |-> (rt = OK), again |-> ~(rt = OK /\ id = tsid)]

\* lines 687-690: if (tsid2 != tsid) ret = -EAGAIN; return ret.  differs: the
\* outcome of the comparison
SidVerified(rt, differs) == IF differs THEN EAGAIN ELSE rt

\* the outcomes of tsid2 != tsid: tsid2 is not initialised when no read of the
\* verification loop succeeded (init false), and the comparison may then go
\* either way
SidCompare(tsid, tsid2, init) ==
    IF ~init THEN BOOLEAN ELSE {tsid2 # tsid}

\* the locals of m1ur_chrdev_set_stream_id before any call
SidInit ==
    [stream_id |-> 0, i |-> 0, tsid |-> 0, tsid2 |-> 0, tsid2_init |-> FALSE,
     polls1 |-> 0, polls2 |-> 0, last1 |-> "none", last2 |-> "none",
     programmed |-> FALSE, set |-> 0]

NoTeardown ==
    [release |-> 0, it930x_term |-> 0, bus_term |-> 0, kfree |-> 0,
     put_device |-> 0, complete |-> 0]

\* lines 992 and 1000: GPIO 3 (reset) true, GPIO 2 (enable) false; the chips
\* are not powered: no TS output, demodulators not running
ChipInit ==
    [gpio2 |-> FALSE, gpio3 |-> TRUE, pins_t |-> FALSE, pins_s |-> FALSE,
     sleep_t |-> TRUE, sleep_s |-> TRUE]

SyncInit ==
    /\ remain_buf = Fill(M1UR_DEVICE_TS_SYNC_SIZE, 0)
    /\ remain_len = 0
    /\ put_stream = <<>>
    /\ fed = <<>>
    /\ last_put = <<>>
    /\ session = [fed |-> 0, put |-> 0]

CtlInit ==
    /\ term_pc = "attached"
    /\ ctl_pc = "idle"
    /\ first_fail = 0
    /\ last_ok = TRUE
    /\ ret = OK
    /\ tune_system = PTX_UNSPECIFIED_SYSTEM
    /\ tune_i = 0
    /\ tuner_locked = "uninit"
    /\ sid = SidInit

Init ==
    /\ SyncInit
    /\ CtlInit
    /\ kref = 1
    /\ available = TRUE
    /\ sessions = 0
    /\ teardown = NoTeardown
    /\ chip = ChipInit
    /\ streaming = FALSE
    /\ current_system = PTX_UNSPECIFIED_SYSTEM
    /\ group_destroyed = FALSE
    /\ op = "init"
    /\ log = <<>>

\* the state after m1ur_device_init and one m1ur_chrdev_open that succeeded
InitOpened ==
    /\ SyncInit
    /\ CtlInit
    /\ kref = 2
    /\ available = TRUE
    /\ sessions = 1
    /\ teardown = NoTeardown
    /\ chip = ApplyTrace(ChipInit, OpenRun(TRUE, 0, {}).tr)
    /\ streaming = FALSE
    /\ current_system = PTX_UNSPECIFIED_SYSTEM
    /\ group_destroyed = FALSE
    /\ op = "open"
    /\ log = Names(OpenRun(TRUE, 0, {}).tr)

\* the state after m1ur_device_init, one m1ur_chrdev_open that succeeded, and
\* the selection of a system by the chrdev layer
InitSelected ==
    /\ SyncInit
    /\ CtlInit
    /\ kref = 2
    /\ available = TRUE
    /\ sessions = 1
    /\ teardown = NoTeardown
    /\ chip = ApplyTrace(ChipInit, OpenRun(TRUE, 0, {}).tr)
    /\ streaming = FALSE
    /\ current_system \in {PTX_ISDB_T_SYSTEM, PTX_ISDB_S_SYSTEM}
    /\ group_destroyed = FALSE
    /\ op = "open"
    /\ log = Names(OpenRun(TRUE, 0, {}).tr)

(***************************************************************************)
(* m1ur_device_load_config, m1ur_device_init                               *)
(***************************************************************************)
ENOMEM == "-ENOMEM"

\* what it930x_read_reg(0x4979) stores in tmp when it succeeds
PresenceValues == {0, 1}

\* lines 957-1035: the calls of m1ur_device_init after the allocation, in
\* order; the read of load_config is named with the value it stores in tmp;
\* discard: px4_device_params.discard_null_packets
DeviceInitSeq(tmp, discard) ==
    << "bus.init", "it930x.init", "it930x.raise",
       IF tmp = 0 THEN "it930x.reg[0x4979]=>0" ELSE "it930x.reg[0x4979]=>1",
       "it930x.load_firmware", "it930x.init_warm",
       "it930x.gpio3.mode:=out", "it930x.gpio3:=1",
       "it930x.gpio2.mode:=out", "it930x.gpio2:=0" >>
    \o (IF discard THEN << "it930x.set_pid_filter" >> ELSE <<>>)
    \o << "ptx_chrdev_context_add_group" >>

\* lines 862-870: the value m1ur_device_load_config returns after its read;
\* ok: the read succeeded
LoadConfigRet(ok, tmp) ==
    IF ~ok THEN EIO
    ELSE IF tmp = 0 THEN OK     \* dev_warn("EEPROM error."); return ret;
    ELSE OK

\* lines 1046-1059: the calls made on the way out when the k-th call failed
InitUnwind(k) ==
    [release |-> 0,
     it930x_term |-> IF k >= 3 THEN 1 ELSE 0,
     bus_term |-> IF k >= 2 THEN 1 ELSE 0,
     kfree |-> IF k >= 1 THEN 1 ELSE 0,
     put_device |-> 1,
     complete |-> 0]

\* Faulty variant of DeviceInitRun that sets the availability flag before it
\* registers the chrdev group; C20 must not hold of it.
DeviceInitRun_EarlyAvailable(args, alloc, tmp, discard, k) ==
    LET seq == DeviceInitSeq(tmp, discard)
    IN  IF ~args
        THEN [tr |-> <<>>, ret |-> EINVAL, kref_init |-> FALSE,
              avail |-> FALSE, td |-> NoTeardown]
        ELSE IF ~alloc
        THEN [tr |-> <<>>, ret |-> ENOMEM, kref_init |-> TRUE,
              avail |-> FALSE, td |-> InitUnwind(0)]
        ELSE IF k # 0
        THEN [tr |-> Checked(seq, k),
              ret |-> IF k = 4 THEN LoadConfigRet(FALSE, tmp) ELSE EIO,
              kref_init |-> TRUE, avail |-> (k = Len(seq)),
              td |-> InitUnwind(k)]
        ELSE [tr |-> Checked(seq, 0), ret |-> LoadConfigRet(TRUE, tmp),
              kref_init |-> TRUE, avail |-> TRUE, td |-> NoTeardown]

\* m1ur_device_init.  args: no argument is NULL; alloc: kzalloc succeeds;
\* tmp: the value of register 0x4979; k: which call of DeviceInitSeq fails
\* (0: none).  kref_init: kref_init was called; avail: atomic_set(available, 1)
\* was called; td: the calls made on the way out.
DeviceInitRun(args, alloc, tmp, discard, k) ==
    LET seq == DeviceInitSeq(tmp, discard)
    IN  IF ~args
        THEN [tr |-> <<>>, ret |-> EINVAL, kref_init |-> FALSE,
              avail |-> FALSE, td |-> NoTeardown]
        ELSE IF ~alloc
        THEN [tr |-> <<>>, ret |-> ENOMEM, kref_init |-> TRUE,
              avail |-> FALSE, td |-> InitUnwind(0)]
        ELSE IF k # 0
        THEN [tr |-> Checked(seq, k),
              ret |-> IF k = 4 THEN LoadConfigRet(FALSE, tmp) ELSE EIO,
              kref_init |-> TRUE, avail |-> FALSE, td |-> InitUnwind(k)]
        ELSE [tr |-> Checked(seq, 0), ret |-> LoadConfigRet(TRUE, tmp),
              kref_init |-> TRUE, avail |-> TRUE, td |-> NoTeardown]

\* the state before m1ur_device_init: the structure zeroed, the GPIO lines as
\* the bridge has them
InitCold ==
    /\ SyncInit
    /\ term_pc = "uninit"
    /\ ctl_pc = "idle"
    /\ first_fail = 0
    /\ last_ok = TRUE
    /\ ret = OK
    /\ tune_system = PTX_UNSPECIFIED_SYSTEM
    /\ tune_i = 0
    /\ tuner_locked = "uninit"
    /\ sid = SidInit
    /\ kref = 0
    /\ available = FALSE
    /\ sessions = 0
    /\ teardown = NoTeardown
    /\ chip \in [gpio2 : BOOLEAN, gpio3 : BOOLEAN, pins_t : {FALSE},
                 pins_s : {FALSE}, sleep_t : {TRUE}, sleep_s : {TRUE}]
    /\ streaming = FALSE
    /\ current_system = PTX_UNSPECIFIED_SYSTEM
    /\ group_destroyed = TRUE
    /\ op = "none"
    /\ log = <<>>

(***************************************************************************)
(* Actions.                                                                *)
(***************************************************************************)
\* an operation that runs in one step did trace tr and returned r
Ran(name, tr, r) ==
    /\ op' = name
    /\ log' = Names(tr)
    /\ first_fail' = FirstFail(tr)
    /\ last_ok' = (tr = <<>> \/ tr[Len(tr)].ok)
    /\ ret' = r
    /\ chip' = ApplyTrace(chip, tr)

\* a running operation did trace tr more
RanMore(tr) ==
    /\ log' = log \o Names(tr)
    /\ first_fail' = IF first_fail # 0 \/ FirstFail(tr) = 0 THEN first_fail
                     ELSE Len(log) + FirstFail(tr)
    /\ last_ok' = IF tr = <<>> THEN last_ok ELSE tr[Len(tr)].ok
    /\ chip' = ApplyTrace(chip, tr)

\* the stream handler, called by the bus for each chunk
m1ur_device_stream_handler(buf) ==
    /\ Len(fed) < MaxChunks
    /\ LET r == StreamHandler(remain_buf, remain_len, buf)
       IN  /\ remain_buf' = r.remain_buf
           /\ remain_len' = r.remain_len
           /\ put_stream' = put_stream \o r.put
           /\ last_put' = r.put
    /\ fed' = Append(fed, buf)
    /\ session' = session
    /\ UNCHANGED <<sid, refVars, envVars, chip, streaming, ctlVars, tuneVars>>

\* m1ur_chrdev_open; the chrdev layer opens no device of a destroyed group
m1ur_chrdev_open(k, F) ==
    /\ ctl_pc = "idle"
    /\ ~group_destroyed
    /\ sessions < MaxSessions
    /\ LET r == OpenRun(available, k, F)
       IN  /\ Ran("open", r.tr, r.ret)
           /\ kref' = IF r.got_ref THEN kref + 1 ELSE kref
           /\ sessions' = IF r.ret = OK THEN sessions + 1 ELSE sessions
    /\ UNCHANGED <<sid, syncVars, remain_len, teardown, envVars, streaming, ctl_pc,
                   tuneVars>>

\* m1ur_chrdev_release, lines 351-352: m1ur_backend_term, set_power(false)
m1ur_chrdev_release_begin(F) ==
    /\ ctl_pc = "idle"
    /\ sessions > 0
    /\ LET off == m1ur_backend_set_power(FALSE, available, 0, F)
       IN  Ran("release", m1ur_backend_term.tr \o off.tr, OK)
    /\ ctl_pc' = "release_put"
    /\ UNCHANGED <<sid, syncVars, remain_len, refVars, envVars, streaming, tuneVars>>

\* m1ur_chrdev_release, line 354: kref_put
m1ur_chrdev_release_put ==
    /\ ctl_pc = "release_put"
    /\ LET p == KrefPut(kref)
       IN  /\ kref' = p.count
           /\ teardown' = IF p.release THEN DeviceRelease(teardown) ELSE teardown
    /\ sessions' = sessions - 1
    /\ ctl_pc' = "idle"
    /\ UNCHANGED <<sid, syncVars, remain_len, envVars, chip, streaming, op, log,
                   first_fail, last_ok, ret, tuneVars>>

\* m1ur_chrdev_set_capture(true)
m1ur_chrdev_start_capture(f, rb) ==
    /\ ctl_pc = "idle"
    /\ sessions > 0
    /\ ~group_destroyed
    /\ f = "pins" => PinsOn(current_system) # <<>>
    /\ LET r == StartCaptureRun(current_system, f, rb)
       IN  /\ Ran("start_capture", r.tr, r.ret)
           /\ remain_len' = IF r.reset THEN 0 ELSE remain_len
           /\ streaming' = IF r.started THEN TRUE ELSE streaming
           /\ session' = IF r.started
                         THEN [fed |-> Len(fed), put |-> Len(put_stream)]
                         ELSE session
    /\ UNCHANGED <<sid, remain_buf, put_stream, fed, last_put, refVars, envVars,
                   ctl_pc, tuneVars>>

\* m1ur_chrdev_set_capture(false), line 788: itedtv_bus_stop_streaming
m1ur_chrdev_stop_capture_begin ==
    /\ ctl_pc = "idle"
    /\ sessions > 0
    /\ Ran("stop_capture", << Acc("bus.stop_streaming", TRUE) >>, OK)
    /\ streaming' = FALSE
    /\ ctl_pc' = "stop_pins"
    /\ UNCHANGED <<sid, syncVars, remain_len, refVars, envVars, tuneVars>>

\* m1ur_chrdev_set_capture(false), lines 790-806
m1ur_chrdev_stop_capture_pins(rb) ==
    /\ ctl_pc = "stop_pins"
    /\ RanMore(StopCapturePins(available, current_system, rb))
    /\ ctl_pc' = "idle"
    /\ UNCHANGED <<sid, syncVars, remain_len, refVars, envVars, streaming, op, ret,
                   tuneVars>>

\* m1ur_chrdev_tune up to the lock poll; k: the access of TunePreSeq that fails
m1ur_chrdev_tune_begin(sys, k) ==
    /\ ctl_pc = "idle"
    /\ sessions > 0
    /\ ~group_destroyed
    /\ tune_system' = sys
    /\ tuner_locked' = "uninit"
    /\ IF sys = PTX_UNSPECIFIED_SYSTEM
       THEN /\ k = 0
            /\ Ran("tune", <<>>, EINVAL)
            /\ UNCHANGED <<ctl_pc, tune_i>>
       ELSE /\ k \in 0..Len(TunePreSeq(sys))
            /\ Ran("tune", Checked(TunePreSeq(sys), k), IF k = 0 THEN OK ELSE EIO)
            /\ ctl_pc' = IF k = 0 THEN "tune_poll" ELSE "idle"
            /\ tune_i' = IF k = 0 THEN TUNE_LOCK_POLLS ELSE tune_i
    /\ UNCHANGED <<sid, syncVars, remain_len, refVars, envVars, streaming>>

\* m1ur_chrdev_tune, the loop while (i--) { read the lock; msleep(10) }
m1ur_chrdev_tune_poll(r) ==
    /\ ctl_pc = "tune_poll"
    /\ LET s == TunePollStep(tune_i, r, tuner_locked)
       IN  /\ tune_i' = s.i
           /\ tuner_locked' = s.locked
           /\ ret' = IF s.polled THEN s.ret ELSE ret
           /\ RanMore(IF s.polled
                      THEN << Acc(TunePollAccess(tune_system), r # "error") >>
                      ELSE <<>>)
           /\ ctl_pc' = IF s.again THEN "tune_poll" ELSE "tune_after"
    /\ UNCHANGED <<sid, syncVars, remain_len, refVars, envVars, streaming, op,
                   tune_system>>

\* m1ur_chrdev_tune after the loop; k: the access of TunePostSeq that fails,
\* F: whether the access whose result is ignored fails
m1ur_chrdev_tune_after(k, F) ==
    /\ ctl_pc = "tune_after"
    /\ k \in 0..Len(TunePostSeq(tune_system))
    /\ IF ret # OK
       THEN /\ k = 0 /\ F = {}
            /\ RanMore(<<>>)
            /\ UNCHANGED ret
       ELSE \E lk \in (IF tuner_locked = "uninit" THEN {"locked", "unlocked"}
                       ELSE {tuner_locked}) :
            IF lk # "locked"
            THEN /\ k = 0 /\ F = {}
                 /\ RanMore(<<>>)
                 /\ ret' = EAGAIN
            ELSE /\ RanMore(BestEffort(TunePostIgnoredSeq(tune_system), F)
                            \o Checked(TunePostSeq(tune_system), k))
                 /\ ret' = IF k = 0 THEN OK ELSE EIO
    /\ ctl_pc' = "idle"
    /\ UNCHANGED <<sid, syncVars, remain_len, refVars, envVars, streaming, op,
                   tuneVars>>

\* m1ur_device_term, line 1086: atomic_xchg(&m1ur->available, 0)
m1ur_device_term_xchg ==
    /\ term_pc = "attached"
    /\ available' = FALSE
    /\ term_pc' = "destroy"
    /\ UNCHANGED <<sid, syncVars, remain_len, refVars, current_system,
                   group_destroyed, chip, streaming, ctlVars, tuneVars>>

\* m1ur_device_term, line 1087: ptx_chrdev_group_destroy
m1ur_device_term_destroy ==
    /\ term_pc = "destroy"
    /\ group_destroyed' = TRUE
    /\ term_pc' = "put"
    /\ UNCHANGED <<sid, syncVars, remain_len, refVars, available, current_system,
                   chip, streaming, ctlVars, tuneVars>>

\* m1ur_device_term, line 1089: kref_put
m1ur_device_term_put ==
    /\ term_pc = "put"
    /\ LET p == KrefPut(kref)
       IN  /\ kref' = p.count
           /\ teardown' = IF p.release THEN DeviceRelease(teardown) ELSE teardown
    /\ term_pc' = "done"
    /\ UNCHANGED <<sid, syncVars, remain_len, sessions, available, current_system,
                   group_destroyed, chip, streaming, ctlVars, tuneVars>>

\* m1ur_device_init, called once by the probe of the bus driver
m1ur_device_init(args, alloc, tmp, discard, k) ==
    /\ term_pc = "uninit"
    /\ k \in 0..Len(DeviceInitSeq(tmp, discard))
    /\ LET r == DeviceInitRun(args, alloc, tmp, discard, k)
       IN  /\ Ran("init", r.tr, r.ret)
           /\ kref' = IF r.kref_init THEN 1 ELSE kref
           /\ available' = IF r.avail THEN TRUE ELSE available
           /\ teardown' =
                [f \in DOMAIN teardown |-> teardown[f] + r.td[f]]
           /\ term_pc' = IF r.ret = OK THEN "attached" ELSE "init_failed"
           /\ group_destroyed' = (r.ret # OK)
    /\ UNCHANGED <<sid, syncVars, remain_len, sessions, current_system,
                   streaming, ctl_pc, tuneVars>>

\* m1ur_chrdev_set_stream_id, lines 639-667: the test of the current system
\* and of the argument
m1ur_chrdev_set_stream_id_begin(stream_id) ==
    /\ ctl_pc = "idle"
    /\ sessions > 0
    /\ ~group_destroyed
    /\ op' = "set_stream_id"
    /\ log' = <<>>
    /\ first_fail' = 0
    /\ last_ok' = TRUE
    /\ IF current_system # PTX_ISDB_S_SYSTEM
       THEN /\ ret' = EINVAL
            /\ ctl_pc' = "idle"
            /\ sid' = [SidInit EXCEPT !.stream_id = stream_id]
       ELSE /\ ret' = OK
            /\ IF stream_id < TSID_SLOTS
               THEN /\ ctl_pc' = "sid_resolve"
                    /\ sid' = [SidInit EXCEPT !.stream_id = stream_id,
                                              !.i = TSID_RESOLVE_POLLS]
               ELSE /\ ctl_pc' = "sid_set"
                    /\ sid' = [SidInit EXCEPT !.stream_id = stream_id,
                                              !.tsid = stream_id]
    /\ UNCHANGED <<syncVars, remain_len, refVars, envVars, chip, streaming,
                   tuneVars>>

\* m1ur_chrdev_set_stream_id, lines 643-663: the resolution poll
m1ur_chrdev_set_stream_id_resolve(r) ==
    /\ ctl_pc = "sid_resolve"
    /\ LET s == SidResolveStep(sid.i, r, sid.tsid)
           rt == IF s.polled THEN s.ret ELSE ret
           d == SidResolved(rt, s.tsid)
       IN  /\ sid' = [sid EXCEPT !.i = s.i, !.tsid = s.tsid,
                                 !.polls1 = IF s.polled THEN @ + 1 ELSE @,
                                 !.last1 = IF s.polled THEN r.ret ELSE @]
           /\ ret' = IF s.again THEN rt ELSE d.ret
           /\ ctl_pc' = IF s.again THEN "sid_resolve"
                        ELSE IF d.go THEN "sid_set" ELSE "idle"
    /\ UNCHANGED <<syncVars, remain_len, refVars, envVars, chip, streaming,
                   op, log, first_fail, last_ok, tuneVars>>

\* m1ur_chrdev_set_stream_id, lines 668-678: tc90522_set_tsid_s; ok: it
\* succeeds
m1ur_chrdev_set_stream_id_set(ok) ==
    /\ ctl_pc = "sid_set"
    /\ log' = Append(log, "tc_s.set_tsid")
    /\ first_fail' = IF ok THEN 0 ELSE 1
    /\ last_ok' = ok
    /\ ret' = IF ok THEN OK ELSE EIO
    /\ sid' = IF ok
              THEN [sid EXCEPT !.programmed = TRUE, !.set = sid.tsid,
                               !.i = TSID_VERIFY_POLLS]
              ELSE sid
    /\ ctl_pc' = IF ok THEN "sid_verify" ELSE "idle"
    /\ UNCHANGED <<syncVars, remain_len, refVars, envVars, chip, streaming,
                   op, tuneVars>>

\* m1ur_chrdev_set_stream_id, lines 678-690: the verification poll
m1ur_chrdev_set_stream_id_verify(r) ==
    /\ ctl_pc = "sid_verify"
    /\ LET s == SidVerifyStep(sid.i, r, sid.tsid, sid.tsid2)
           rt == IF s.polled THEN s.ret ELSE ret
           init == sid.tsid2_init \/ s.stored
       IN  /\ sid' = [sid EXCEPT !.i = s.i, !.tsid2 = s.tsid2,
                                 !.tsid2_init = init,
                                 !.polls2 = IF s.polled THEN @ + 1 ELSE @,
                                 !.last2 = IF s.polled THEN r.ret ELSE @]
           /\ IF s.again
              THEN ret' = rt /\ ctl_pc' = "sid_verify"
              ELSE /\ \E differs \in SidCompare(sid.tsid, s.tsid2, init) :
                        ret' = SidVerified(rt, differs)
                   /\ ctl_pc' = "idle"
    /\ UNCHANGED <<syncVars, remain_len, refVars, envVars, chip, streaming,
                   op, log, first_fail, last_ok, tuneVars>>

\* the chrdev layer sets chrdev->current_system to the system last tuned
ptx_chrdev_current_system(sys) ==
    /\ ctl_pc = "idle"
    /\ sessions > 0
    /\ current_system' = sys
    /\ UNCHANGED <<sid, syncVars, remain_len, refVars, available, group_destroyed,
                   term_pc, chip, streaming, ctlVars, tuneVars>>

(***************************************************************************)
(* Specifications.                                                         *)
(***************************************************************************)
\* the synchronizer alone, fed by the bus
NextSync == \E buf \in Chunks : m1ur_device_stream_handler(buf)

SpecSync == Init /\ [][NextSync]_vars

\* Chunks whose payload bytes tell where in the stream they are: every byte 0 of
\* chunk c, delivered after base bytes, becomes a value of 1..70 that depends
\* on its offset in the stream; markers stay markers.
Stamped(c, base) ==
    [k \in 1..Len(c) |-> IF c[k] = 0 THEN 1 + ((base + k) % 70) ELSE c[k]]

\* packets cut by the chunk boundaries, garbage, and chunks longer than what
\* fills the carry-over buffer up
OrderChunks ==
    { Chunk(0, 0, 0, 4, HalfPacket, 0), Chunk(HalfPacket, 0, 0, 3, 0, 0),
      Chunk(HalfPacket, 0, 0, 7, 0, 0), Chunk(HalfPacket, 0, 0, 0, 0, 0),
      Chunk(0, 0, 0, 4, 0, 0), Chunk(0, 3, 0, 4, 0, 0),
      Chunk(0, 0, 0, 0, HalfPacket, 0) }

\* the handler alone, fed with stamped chunks: one capture session
NextOrder ==
    \E c \in OrderChunks :
        m1ur_device_stream_handler(Stamped(c, Len(Concat(fed))))

SpecOrder == Init /\ [][NextOrder]_vars

\* capture sessions on an open device for which the chrdev layer has selected
\* a system: set_capture(true), the chunks the bus delivers, set_capture(false)
CaptureChunks ==
    { Chunk(0, 0, 0, 4, HalfPacket, 0), Chunk(HalfPacket, 0, 0, 7, 0, 0) }

NextCapture ==
    \/ \E c \in CaptureChunks :
          m1ur_device_stream_handler(Stamped(c, Len(Concat(fed))))
    \/ \E f \in StartFailures, rb \in BOOLEAN : m1ur_chrdev_start_capture(f, rb)
    \/ m1ur_chrdev_stop_capture_begin
    \/ \E rb \in BOOLEAN : m1ur_chrdev_stop_capture_pins(rb)

SpecCapture == InitSelected /\ [][NextCapture]_vars

\* tune calls on an open device
NextTune ==
    \/ \E sys \in Systems, k \in 0..Len(TunePreSeq(PTX_ISDB_T_SYSTEM)) :
            m1ur_chrdev_tune_begin(sys, k)
    \/ \E r \in PollResults : m1ur_chrdev_tune_poll(r)
    \/ \E k \in 0..Len(TunePostSeq(PTX_ISDB_T_SYSTEM)), F \in SUBSET {1} :
            m1ur_chrdev_tune_after(k, F)

SpecTune == InitOpened /\ [][NextTune]_vars

\* the thread in m1ur_chrdev_tune goes on: msleep(10) returns and the loop
\* and the code after it are run
FairSpecTune ==
    /\ SpecTune
    /\ WF_<<ctl_pc, tune_i>>(\E r \in PollResults : m1ur_chrdev_tune_poll(r))
    /\ WF_ctl_pc(\E k \in 0..Len(TunePostSeq(PTX_ISDB_T_SYSTEM)),
                    F \in SUBSET {1} : m1ur_chrdev_tune_after(k, F))

\* open, capture and release against the teardown of m1ur_device_term
NextLife ==
    \/ \E k \in 0..OpenAccesses, F \in SUBSET {1, 2} : m1ur_chrdev_open(k, F)
    \/ \E F \in SUBSET {1, 2} : m1ur_chrdev_release_begin(F)
    \/ m1ur_chrdev_release_put
    \/ \E f \in StartFailures, rb \in BOOLEAN : m1ur_chrdev_start_capture(f, rb)
    \/ m1ur_chrdev_stop_capture_begin
    \/ \E rb \in BOOLEAN : m1ur_chrdev_stop_capture_pins(rb)
    \/ \E sys \in Systems : ptx_chrdev_current_system(sys)
    \/ m1ur_device_term_xchg
    \/ m1ur_device_term_destroy
    \/ m1ur_device_term_put

SpecLife == Init /\ [][NextLife]_vars

\* the life of a device from the probe on: m1ur_device_init, then the
\* operations of the chrdev and m1ur_device_term.  The accesses that fail in
\* open and tune are drawn from the first and the last of each.
AttachOpenFailures == {0, Len(PowerOnSeq) + 1, OpenAccesses}

NextAttach ==
    \/ \E args \in BOOLEAN, alloc \in BOOLEAN, tmp \in PresenceValues,
          discard \in BOOLEAN, k \in 0..(Len(DeviceInitSeq(1, TRUE))) :
            m1ur_device_init(args, alloc, tmp, discard, k)
    \/ \E k \in AttachOpenFailures, F \in {{}, {1, 2}} : m1ur_chrdev_open(k, F)
    \/ \E F \in {{}, {1, 2}} : m1ur_chrdev_release_begin(F)
    \/ m1ur_chrdev_release_put
    \/ \E f \in StartFailures, rb \in BOOLEAN : m1ur_chrdev_start_capture(f, rb)
    \/ m1ur_chrdev_stop_capture_begin
    \/ \E rb \in BOOLEAN : m1ur_chrdev_stop_capture_pins(rb)
    \/ \E sys \in Systems : ptx_chrdev_current_system(sys)
    \/ \E sys \in Systems, k \in {0, 1} : m1ur_chrdev_tune_begin(sys, k)
    \/ \E r \in {"locked"} : m1ur_chrdev_tune_poll(r)
    \/ \E F \in {{}} : m1ur_chrdev_tune_after(0, F)
    \/ m1ur_device_term_xchg
    \/ m1ur_device_term_destroy
    \/ m1ur_device_term_put

SpecAttach == InitCold /\ [][NextAttach]_vars

\* set_stream_id calls on an open device
NextSid ==
    \/ \E stream_id \in StreamIds : m1ur_chrdev_set_stream_id_begin(stream_id)
    \/ \E r \in ResolveResults : m1ur_chrdev_set_stream_id_resolve(r)
    \/ \E ok \in BOOLEAN : m1ur_chrdev_set_stream_id_set(ok)
    \/ \E r \in VerifyResults : m1ur_chrdev_set_stream_id_verify(r)
    \/ \E sys \in Systems : ptx_chrdev_current_system(sys)

SpecSid == InitOpened /\ [][NextSid]_vars

\* the thread in m1ur_chrdev_set_stream_id goes on: msleep(10) returns and
\* the loops and the code after them are run
FairSpecSid ==
    /\ SpecSid
    /\ WF_<<ctl_pc, sid>>(\E r \in ResolveResults :
                              m1ur_chrdev_set_stream_id_resolve(r))
    /\ WF_ctl_pc(\E ok \in BOOLEAN : m1ur_chrdev_set_stream_id_set(ok))
    /\ WF_<<ctl_pc, sid>>(\E r \in VerifyResults :
                              m1ur_chrdev_set_stream_id_verify(r))

Next == NextSync \/ NextOrder \/ NextCapture \/ NextTune \/ NextLife \/ NextAttach \/ NextSid

Spec == Init /\ [][Next]_vars

(***************************************************************************)
(* Claims about the stream synchronizer, under SpecSync.                   *)
(***************************************************************************)
\* a block whose length is a positive multiple of 188 and whose every 188-byte
\* slot starts with the marker
BlockAligned(b) ==
    /\ Len(b) > 0
    /\ Len(b) % TS_PACKET_SIZE = 0
    /\ \A k \in 0..((Len(b) \div TS_PACKET_SIZE) - 1) :
           b[k * TS_PACKET_SIZE + 1] = TS_SYNC_BYTE

\* all the bytes handed to the handler so far
FedBytes == Concat(fed)

\* C1: every block handed to ptx_chrdev_put_stream has a length that is a
\* positive multiple of 188, and each of its 188-byte slots starts with 0x47.
C1_EmittedBlocksAligned ==
    \A k \in 1..Len(put_stream) : BlockAligned(put_stream[k])

\* C1 witness: blocks were emitted by several invocations, one of them through
\* the carry-over buffer filled up by the next chunk.
C1_Witness ==
    /\ Len(fed) >= 2
    /\ Len(put_stream) >= 2
    /\ last_put # <<>>
    /\ Len(fed[Len(fed)]) = HalfPacket + 3 * TS_PACKET_SIZE

\* C2: the blocks emitted for the chunks fed so far, concatenated, equal the
\* blocks emitted when the same bytes are fed as a single chunk to an empty
\* carry-over.
C2_ChunkingInvariance ==
    Concat(put_stream)
        = Concat(StreamHandler(Fill(M1UR_DEVICE_TS_SYNC_SIZE, 0), 0, FedBytes).put)

\* C3: between invocations the carry-over fill length is less than 752.
C3_CarryBelowCapacity ==
    remain_len >= 0 /\ remain_len < M1UR_DEVICE_TS_SYNC_SIZE

\* C3 witness: the carry-over was accumulated over invocations to more than
\* three packets' worth of bytes.
C3_Witness ==
    /\ Len(fed) >= 2
    /\ remain_len > 3 * TS_PACKET_SIZE

\* every 188-byte slot of s, counted from its first byte, starts with the
\* marker: s is a run of valid packets, the last one possibly cut
PacketPrefix(s) ==
    \A k \in 1..Len(s) : ((k - 1) % TS_PACKET_SIZE = 0) => s[k] = TS_SYNC_BYTE

\* C4: when the bytes delivered so far are a run of fewer than 4 valid packets
\* (the last one possibly incomplete), nothing was emitted and the carry-over
\* holds all the delivered bytes.
C4_ShortRunRetained ==
    (/\ fed # <<>>
     /\ PacketPrefix(FedBytes)
     /\ Len(FedBytes) < M1UR_DEVICE_TS_SYNC_SIZE)
    => /\ put_stream = <<>>
       /\ remain_len = Len(FedBytes)
       /\ SubSeq(remain_buf, 1, remain_len) = FedBytes

\* s is N >= 4 whole valid packets
PacketRun(s) ==
    /\ Len(s) % TS_PACKET_SIZE = 0
    /\ Len(s) >= M1UR_DEVICE_TS_SYNC_COUNT * TS_PACKET_SIZE
    /\ PacketPrefix(s)

\* C5: with an empty carry-over, a chunk of N >= 4 whole valid packets is
\* emitted as exactly one block of 188 * N bytes and leaves the carry-over empty.
C5_PacketRunOneBlock ==
    [][(/\ remain_len = 0
        /\ Len(fed') = Len(fed) + 1
        /\ PacketRun(fed'[Len(fed')]))
       => (/\ last_put' = << fed'[Len(fed')] >>
           /\ remain_len' = 0)]_vars

\* C5 witness: a chunk of 5 packets was handled with an empty carry-over.
C5_Witness ==
    /\ Len(fed) = 1
    /\ PacketRun(fed[1])
    /\ Len(fed[1]) = 5 * TS_PACKET_SIZE
    /\ last_put = << fed[1] >>
    /\ remain_len = 0

\* position d (0-based) of s starts 4 markers at 188-byte spacing
StartsRun(s, d) ==
    \A k \in 0..(M1UR_DEVICE_TS_SYNC_COUNT - 1) :
        /\ d + k * TS_PACKET_SIZE + 1 <= Len(s)
        /\ s[d + k * TS_PACKET_SIZE + 1] = TS_SYNC_BYTE

\* s is 3 bytes, none of which starts a run of 4 markers, then 4 valid packets
GarbageThenRun(s) ==
    /\ Len(s) = 3 + M1UR_DEVICE_TS_SYNC_SIZE
    /\ PacketPrefix(SubSeq(s, 4, Len(s)))
    /\ \A d \in 0..2 : ~StartsRun(s, d)

\* C6: with an empty carry-over, a chunk of 3 garbage bytes and 4 valid packets
\* is emitted as exactly one block, the 752 bytes from offset 3, and nothing is
\* left in the carry-over.
C6_GarbageDiscarded ==
    [][(/\ remain_len = 0
        /\ Len(fed') = Len(fed) + 1
        /\ GarbageThenRun(fed'[Len(fed')]))
       => (/\ last_put' = << SubSeq(fed'[Len(fed')], 4, 3 + M1UR_DEVICE_TS_SYNC_SIZE) >>
           /\ remain_len' = 0)]_vars

\* C6 witness: such a chunk was handled with an empty carry-over; its payload
\* is full of marker bytes.
C6_Witness ==
    /\ Len(fed) = 1
    /\ GarbageThenRun(fed[1])
    /\ fed[1][5] = TS_SYNC_BYTE
    /\ Len(last_put) = 1
    /\ Len(last_put[1]) = M1UR_DEVICE_TS_SYNC_SIZE
    /\ remain_len = 0

(***************************************************************************)
(* Claims about teardown and capture, under SpecLife.                      *)
(***************************************************************************)
\* C7: m1ur_device_release ran exactly once when the reference count is zero
\* and not at all before; each of its steps (bridge teardown, free of the
\* stream context, complete) was made as often as it ran; and the count is
\* zero once m1ur_device_term and every session dropped their reference.
C7_ReleaseExactlyOnce ==
    /\ kref >= 0
    /\ teardown.release = (IF kref = 0 THEN 1 ELSE 0)
    /\ teardown.it930x_term = teardown.release
    /\ teardown.bus_term = teardown.release
    /\ teardown.kfree = teardown.release
    /\ teardown.put_device = teardown.release
    /\ teardown.complete = teardown.release
    /\ (term_pc = "done" /\ sessions = 0) => kref = 0

\* C7 witness: m1ur_device_term and a session both dropped their reference,
\* the session last, and the release ran.
C7_Witness ==
    /\ term_pc = "done"
    /\ op = "release"
    /\ ctl_pc = "idle"
    /\ sessions = 0
    /\ kref = 0
    /\ teardown.complete = 1

\* C8: m1ur_chrdev_stop_capture starts with stop-streaming; after it, when the
\* availability flag reads false no access follows and the hardware is left as
\* it is, and when it reads true the only access that follows is the disable of
\* the TS pins of the current system.
C8_StopCaptureOrder ==
    [][/\ (op' = "stop_capture")
          => (/\ log' # <<>>
              /\ log'[1] = "bus.stop_streaming"
              /\ ctl_pc' = "stop_pins" => (Len(log') = 1 /\ ~streaming'))
       /\ (ctl_pc = "stop_pins" /\ ctl_pc' = "idle")
          => (/\ ~streaming
              /\ IF ~available
                 THEN log' = log /\ chip' = chip
                 ELSE log' = log \o PinsOff(current_system))]_vars

\* C8 witness: a stop_capture that read the availability flag as false ended
\* with stop-streaming as its only access, though the system has TS pins.
C8_Witness ==
    /\ op = "stop_capture"
    /\ ctl_pc = "idle"
    /\ ~available
    /\ current_system = PTX_ISDB_T_SYSTEM
    /\ log = << "bus.stop_streaming" >>

\* the TS pins of system sys are enabled in the hardware
PinsEnabled(c, sys) ==
    \/ sys = PTX_ISDB_T_SYSTEM /\ c.pins_t
    \/ sys = PTX_ISDB_S_SYSTEM /\ c.pins_s

\* a step of m1ur_chrdev_start_capture that returns an error: the one control
\* operation that starts and ends idle and leaves the sessions, the current
\* system and the detach as they are
StartCaptureFailed ==
    /\ ctl_pc = "idle"
    /\ ctl_pc' = "idle"
    /\ op' = "start_capture"
    /\ sessions' = sessions
    /\ current_system' = current_system
    /\ term_pc' = term_pc
    /\ ret' # OK

\* C9 as stated: a start_capture called with streaming off and the pins of the
\* current system disabled, and that fails, leaves streaming off and the pins
\* not enabled.
C9_NoHalfStartedCapture ==
    [][(/\ StartCaptureFailed
        /\ ~streaming
        /\ ~PinsEnabled(chip, current_system))
       => (/\ ~streaming'
           /\ ~PinsEnabled(chip', current_system))]_vars

\* the accesses of a start_capture that fails, for current system sys
StartFailLogs(sys) ==
    { << "it930x.purge_psb" >>,
      << "it930x.purge_psb" >> \o PinsOn(sys) \o << "bus.start_streaming" >>
          \o PinsOff(sys) }
    \cup (IF PinsOn(sys) = <<>> THEN {}
          ELSE { << "it930x.purge_psb" >> \o PinsOn(sys) \o PinsOff(sys) })

\* C9 amended: a start_capture called with streaming off and the pins of the
\* current system disabled, and that fails, leaves streaming off; it made
\* either the purge alone, or the purge, the pin enable and the pin disable,
\* or the purge, the pin enable, the start of streaming and the pin disable;
\* no access after the failed one but that disable; and the pins are disabled
\* whenever its last access, the disable, succeeded.
C9_RollbackAttempted ==
    [][(/\ StartCaptureFailed
        /\ ~streaming
        /\ ~PinsEnabled(chip, current_system))
       => (/\ ~streaming'
           /\ log' \in StartFailLogs(current_system)
           /\ first_fail' # 0
           /\ first_fail' >= Len(log') - Len(PinsOff(current_system))
           /\ log'[first_fail'] \notin {"tc_t.ts_pins:=0", "tc_s.ts_pins:=0"}
           /\ last_ok' => ~PinsEnabled(chip', current_system))]_vars

\* C9 witness: start-streaming failed after the pins of ISDB-T were enabled,
\* and the rollback disabled them.
C9_Witness ==
    /\ op = "start_capture"
    /\ ret = EIO
    /\ current_system = PTX_ISDB_T_SYSTEM
    /\ log = << "it930x.purge_psb", "tc_t.ts_pins:=1", "bus.start_streaming",
               "tc_t.ts_pins:=0" >>
    /\ first_fail = 3
    /\ ~chip.pins_t
    /\ ~streaming

(***************************************************************************)
(* Claims about tune, under FairSpecTune.                                  *)
(***************************************************************************)
\* the lock polls of the tune call running or last run
LockPolls ==
    Cardinality({ j \in 1..Len(log) : log[j] = TunePollAccess(tune_system) })

\* the poll budget of a tune call: at most 50 lock polls, and what a call
\* whose reads all succeeded without a lock returns
C10_PollBudget ==
    (op = "tune") =>
        /\ LockPolls <= TUNE_LOCK_POLLS
        /\ (ctl_pc = "tune_poll")
              => (tune_i \in 0..TUNE_LOCK_POLLS
                  /\ LockPolls = TUNE_LOCK_POLLS - tune_i)
        /\ (ctl_pc = "idle" /\ first_fail = 0 /\ tuner_locked = "unlocked")
              => (/\ LockPolls = TUNE_LOCK_POLLS
                  /\ ret = EAGAIN
                  /\ \A j \in 1..Len(log) :
                        log[j] \notin {"tc_t.agc:=1", "tc_s.agc:=1"})

\* C10: a tune call never makes more than 50 lock polls, the polls left and
\* the polls made add up to 50 while it polls, and it leaves the poll loop and
\* returns; when no access failed and no read reported the lock, it made
\* exactly 50 polls, returned -EAGAIN and did not enable AGC.
C10_TuneLockTimeout ==
    /\ []C10_PollBudget
    /\ (ctl_pc = "tune_poll") ~> (ctl_pc = "idle")

\* C10 witness: a tune call for ISDB-S whose 50 lock reads all succeeded and
\* reported no lock returned -EAGAIN.
C10_Witness ==
    /\ op = "tune"
    /\ ctl_pc = "idle"
    /\ tune_system = PTX_ISDB_S_SYSTEM
    /\ first_fail = 0
    /\ tuner_locked = "unlocked"
    /\ LockPolls = TUNE_LOCK_POLLS
    /\ ret = EAGAIN

\* C11: in a tune call no access follows a failed register write, sleep or AGC
\* command, tuner call or lock read, and the call returns the error of that
\* access.
C11_AbortOnFirstFailure ==
    (op = "tune" /\ first_fail # 0
        /\ log[first_fail] # "rt710.get_rf_signal_strength")
    => /\ first_fail = Len(log)
       /\ (ctl_pc = "idle") => ret = EIO

\* C12: after an open that succeeded and any tune calls, the two demodulators
\* are never both awake, and a step that wakes one of them is made in a tune
\* call whose sleep command to the other one was made before and succeeded.
C12_DemodulatorsExclusive ==
    /\ [](chip.sleep_t \/ chip.sleep_s)
    /\ [][/\ (chip.sleep_t /\ ~chip'.sleep_t)
             => \E j \in 1..Len(log') :
                    /\ log'[j] = "tc_s.sleep:=1"
                    /\ first_fail' \in {0} \cup ((j + 1)..Len(log'))
                    /\ \E e \in (j + 1)..Len(log') : log'[e] = "tc_t.sleep:=0"
          /\ (chip.sleep_s /\ ~chip'.sleep_s)
             => \E j \in 1..Len(log') :
                    /\ log'[j] = "tc_t.sleep:=1"
                    /\ first_fail' \in {0} \cup ((j + 1)..Len(log'))
                    /\ \E e \in (j + 1)..Len(log') : log'[e] = "tc_s.sleep:=0"
         ]_vars

\* C12 witness: a tune call for ISDB-T made while the satellite demodulator
\* was awake failed at the sleep command to it, and left the terrestrial
\* demodulator asleep.
C12_Witness ==
    /\ op = "tune"
    /\ ctl_pc = "idle"
    /\ tune_system = PTX_ISDB_T_SYSTEM
    /\ first_fail = 3
    /\ log[3] = "tc_s.sleep:=1"
    /\ ~chip.sleep_s
    /\ chip.sleep_t

\* C13: an open of an available device that fails after the power-on
\* succeeded makes, after the failed access, the termination of the chips when
\* m1ur_backend_init had succeeded and then the two power-off writes, and
\* nothing else.
C13_FailedOpenUnwinds ==
    (op = "open" /\ ret # OK /\ available /\ first_fail > Len(PowerOnSeq))
    => SubSeq(log, first_fail + 1, Len(log))
         = (IF first_fail > Len(PowerOnSeq) + Len(BackendInitSeq)
            THEN BackendTermSeq ELSE <<>>) \o PowerOffSeq

(***************************************************************************)
(* Claims about the attach, under SpecAttach.                              *)
(***************************************************************************)
\* C14: when the read of register 0x4979 succeeded and stored 0,
\* m1ur_device_init returned an error, made no call after that read (no
\* firmware load, no warm init, no GPIO programming, no chrdev group), and
\* did not set the availability flag.
C14_AbsenceFailsInit ==
    (/\ op = "init"
     /\ \E j \in 1..Len(log) : log[j] = "it930x.reg[0x4979]=>0" /\ first_fail # j)
    => /\ ret # OK
       /\ log[Len(log)] = "it930x.reg[0x4979]=>0"
       /\ ~available

\* C20: the availability flag becomes true only in a step of m1ur_device_init
\* that returns 0; it is false from the first step of m1ur_device_term on, so
\* before the attach reference is dropped; and once m1ur_device_init is over
\* no step of open, release, tune, capture or m1ur_device_term makes it true
\* again.
C20_AvailabilityOneWay ==
    /\ [](term_pc \in {"destroy", "put", "done"} => ~available)
    /\ [][(~available /\ available')
            => (term_pc = "uninit" /\ op' = "init" /\ ret' = OK)]_vars
    /\ [][(term_pc # "uninit" /\ ~available) => ~available']_vars

\* C20 witness: an open ran after m1ur_device_term cleared the flag (it failed
\* at the first chip init, and its power-off was the no-op of an unavailable
\* device), and the flag is still false.
C20_Witness ==
    /\ term_pc = "destroy"
    /\ op = "open"
    /\ first_fail = Len(PowerOnSeq) + 1
    /\ Len(log) = first_fail
    /\ ~available

(***************************************************************************)
(* Claims about the power sequence and the chip initialisation, seen in    *)
(* m1ur_chrdev_open and m1ur_chrdev_release, under SpecLife.               *)
(***************************************************************************)
\* how often access a was attempted in the operation last run
Attempts(a) == Cardinality({ j \in 1..Len(log) : log[j] = a })

\* C15: the power-on of an open writes GPIO 3 to false first and GPIO 2 to
\* true next, each at most once; when the first write fails GPIO 2 is not
\* written, and the error of the write that fails is returned.
C15_PowerOnOrder ==
    (op = "open") =>
        /\ log # <<>>
        /\ log[1] = "it930x.gpio3:=0"
        /\ Attempts("it930x.gpio3:=0") = 1
        /\ Attempts("it930x.gpio2:=1") <= 1
        /\ (first_fail = 1)
             => (log = << "it930x.gpio3:=0" >> /\ ret = EIO)
        /\ (first_fail # 1)
             => (Len(log) >= 2 /\ log[2] = "it930x.gpio2:=1")
        /\ (first_fail = 2)
             => (Len(log) = 2 /\ ret = EIO)

\* C15 witness: the first power-on write of an open failed, and the enable
\* line was left as it was.
C15_Witness ==
    /\ op = "open"
    /\ first_fail = 1
    /\ log = << "it930x.gpio3:=0" >>
    /\ ret = EIO
    /\ ~chip.gpio2

\* C16: the power-off of a release makes no GPIO write when the availability
\* flag reads false; when it reads true it writes GPIO 2 to false and then
\* GPIO 3 to true whatever the result of the first write; the release returns
\* 0 and goes on to drop its reference.
C16_PowerOffBestEffort ==
    [][(ctl_pc = "idle" /\ ctl_pc' = "release_put")
       => /\ op' = "release"
          /\ ret' = OK
          /\ SubSeq(log', 1, Len(BackendTermSeq)) = BackendTermSeq
          /\ SubSeq(log', Len(BackendTermSeq) + 1, Len(log'))
               = (IF available
                  THEN << "it930x.gpio2:=0", "it930x.gpio3:=1" >>
                  ELSE <<>>)
          /\ ~available => (chip'.gpio2 = chip.gpio2 /\ chip'.gpio3 = chip.gpio3)
          /\ kref' = kref]_vars

\* C16 witness: the first power-off write of a release failed, the second was
\* made and took effect, and the release is about to drop its reference.
C16_Witness ==
    /\ op = "release"
    /\ ctl_pc = "release_put"
    /\ first_fail = Len(BackendTermSeq) + 1
    /\ Len(log) = Len(BackendTermSeq) + 2
    /\ last_ok
    /\ chip.gpio2
    /\ chip.gpio3
    /\ ret = OK

\* C17: an open initialises the chips in the order terrestrial demodulator,
\* satellite demodulator, terrestrial tuner, satellite tuner; when one of the
\* four fails the open returns its error, the later ones are not initialised
\* and no chip is terminated.
C17_InitChainOrder ==
    (op = "open" /\ Len(log) > Len(PowerOnSeq)) =>
        LET order == << "tc_t.init", "tc_s.init", "r850.init", "rt710.init" >>
            n == IF first_fail \in 3..6 THEN first_fail - 2 ELSE 4
        IN  /\ Len(log) >= 2 + n
            /\ SubSeq(log, 3, 2 + n) = SubSeq(order, 1, n)
            /\ \A a \in {order[j] : j \in 1..4} : Attempts(a) <= 1
            /\ (first_fail \in 3..6)
                 => /\ ret = EIO
                    /\ \A j \in (first_fail + 1)..Len(log) :
                          log[j] \in {"it930x.gpio2:=0", "it930x.gpio3:=1"}

\* C17 witness: the init of the satellite demodulator failed in an open of an
\* available device; the tuners were not initialised, nothing was terminated,
\* and the power was switched off.
C17_Witness ==
    /\ op = "open"
    /\ first_fail = 4
    /\ log = << "it930x.gpio3:=0", "it930x.gpio2:=1", "tc_t.init", "tc_s.init",
               "it930x.gpio2:=0", "it930x.gpio3:=1" >>
    /\ ret = EIO

(***************************************************************************)
(* Claims about m1ur_chrdev_set_stream_id, under SpecSid and FairSpecSid.  *)
(***************************************************************************)
\* what holds of a set_stream_id call while it runs and when it is over
C18_PollBudget ==
    (op = "set_stream_id") =>
        /\ sid.polls1 <= TSID_RESOLVE_POLLS
        /\ sid.polls2 <= TSID_VERIFY_POLLS
        /\ (ctl_pc = "sid_resolve")
             => /\ sid.i \in 0..TSID_RESOLVE_POLLS
                /\ sid.polls1 = TSID_RESOLVE_POLLS - sid.i
                /\ sid.last1 # EINVAL
                /\ ~(sid.last1 = OK /\ sid.tsid # 0)
        /\ (ctl_pc = "sid_verify")
             => /\ sid.i \in 0..TSID_VERIFY_POLLS
                /\ sid.polls2 = TSID_VERIFY_POLLS - sid.i
                /\ ~(sid.last2 = OK /\ sid.tsid2 = sid.tsid)
        /\ (ctl_pc \in {"sid_resolve", "sid_set"})
             => (~sid.programmed /\ sid.polls2 = 0)
        /\ (sid.stream_id >= TSID_SLOTS)
             => (sid.polls1 = 0 /\ (sid.programmed => sid.set = sid.stream_id))
        /\ (sid.stream_id < TSID_SLOTS /\ (sid.programmed \/ ctl_pc = "sid_set"))
             => /\ sid.last1 = OK
                /\ sid.tsid # 0
                /\ sid.programmed => sid.set = sid.tsid
        /\ (ctl_pc = "idle" /\ sid.last1 = EINVAL)
             => (ret = EINVAL /\ ~sid.programmed /\ sid.polls2 = 0)
        /\ (ctl_pc = "idle" /\ sid.last1 = OK /\ sid.tsid = 0)
             => (ret = EAGAIN /\ ~sid.programmed /\ sid.polls2 = 0
                 /\ sid.polls1 = TSID_RESOLVE_POLLS)
        /\ (ctl_pc = "idle" /\ ret = OK)
             => (/\ sid.programmed
                 /\ sid.last2 = OK
                 /\ sid.tsid2_init
                 /\ sid.tsid2 = sid.set)

\* C18: a set_stream_id call makes at most 100 resolution reads and at most
\* 100 verification reads and returns; for a stream_id below 12 it reads until
\* an ID other than 0 is read, leaves the loop at -EINVAL and returns it
\* without programming an ID, and returns -EAGAIN without programming when
\* the ID read last is 0; the ID it programs is the one resolved, or stream_id
\* itself when that is 12 or more; and it returns 0 only when its last
\* verification read succeeded and stored the ID programmed.
C18_SelectSubstreamBounded ==
    /\ []C18_PollBudget
    /\ (ctl_pc \in {"sid_resolve", "sid_set", "sid_verify"}) ~> (ctl_pc = "idle")

\* C18 witness: a call for a slot resolved the ID at the last of the 100
\* resolution reads, programmed it, and saw it at the last of the 100
\* verification reads.
C18_Witness ==
    /\ op = "set_stream_id"
    /\ ctl_pc = "idle"
    /\ sid.stream_id < TSID_SLOTS
    /\ sid.polls1 = TSID_RESOLVE_POLLS
    /\ sid.polls2 = TSID_VERIFY_POLLS
    /\ sid.programmed
    /\ ret = OK

\* C19: a set_stream_id call returns -EAGAIN only when the last read it made
\* succeeded; when that read failed with a transport error, the call does not
\* return -EAGAIN.
C19_TransportErrorKept ==
    (op = "set_stream_id" /\ ctl_pc = "idle" /\ ret = EAGAIN)
    => (IF sid.polls2 > 0 THEN sid.last2 = OK ELSE sid.last1 = OK)

(***************************************************************************)
(* Claims about the end of a tune call, under SpecTune.                    *)
(***************************************************************************)
\* the AGC-enable command of the demodulator a tune call selects
AgcOn == IF tune_system = PTX_ISDB_T_SYSTEM THEN "tc_t.agc:=1" ELSE "tc_s.agc:=1"

\* the AGC-enable of the tune call at index j of the log follows a lock read
\* that succeeded and reported the lock, the last read of the call
AfterLockedRead(j) ==
    /\ tuner_locked = "locked"
    /\ \E e \in 1..(j - 1) :
          /\ log[e] = TunePollAccess(tune_system)
          /\ first_fail # e
          /\ \A d \in (e + 1)..Len(log) : log[d] # TunePollAccess(tune_system)

\* C22 as stated: in a tune call that is over, the AGC-enable command follows
\* a lock read that succeeded and reported the lock, and is the last access
\* of the call.
C22_AgcIsFinalStep ==
    (op = "tune" /\ ctl_pc = "idle") =>
        \A j \in 1..Len(log) :
            (log[j] = AgcOn) => (AfterLockedRead(j) /\ j = Len(log))

\* C22 amended: the AGC-enable command of a tune call is made at most once and
\* follows a lock read that succeeded and reported the lock; for ISDB-S it is
\* the last access of the call; for ISDB-T only the writes of registers 0x71,
\* 0x72 and 0x75 follow it, in that order, each made only when the AGC-enable
\* and the writes before it succeeded.
C22_AgcAfterLock ==
    (op = "tune") =>
        \A j \in 1..Len(log) :
            (log[j] = AgcOn) =>
                LET rest == SubSeq(log, j + 1, Len(log))
                    after == << "tc_t.reg[0x71]:=0x01", "tc_t.reg[0x72]:=0x25",
                                "tc_t.reg[0x75]:=0x00" >>
                IN  /\ AfterLockedRead(j)
                    /\ \A e \in 1..Len(log) : log[e] = AgcOn => e = j
                    /\ (tune_system = PTX_ISDB_S_SYSTEM) => rest = <<>>
                    /\ (tune_system = PTX_ISDB_T_SYSTEM)
                         => /\ Len(rest) <= Len(after)
                            /\ rest = SubSeq(after, 1, Len(rest))
                            /\ (first_fail >= j) => first_fail = Len(log)
                            /\ (ret = OK) => rest = after

\* C22 witness: a tune call for ISDB-T found the lock, enabled AGC, wrote the
\* three registers and returned 0.
C22_Witness ==
    /\ op = "tune"
    /\ ctl_pc = "idle"
    /\ tune_system = PTX_ISDB_T_SYSTEM
    /\ ret = OK
    /\ tuner_locked = "locked"
    /\ log[Len(log)] = "tc_t.reg[0x75]:=0x00"
    /\ log[Len(log) - 3] = "tc_t.agc:=1"

(***************************************************************************)
(* Claims about the reference count, under SpecLife.                       *)
(***************************************************************************)
\* a step of m1ur_chrdev_open
OpenStep ==
    /\ ctl_pc = "idle"
    /\ ctl_pc' = "idle"
    /\ op' = "open"
    /\ UNCHANGED <<current_system, term_pc>>

\* a step of the kref_put of m1ur_chrdev_release
ReleasePutStep == ctl_pc = "release_put" /\ ctl_pc' = "idle"

\* the count is 1 until the kref_put of m1ur_device_term, plus the sessions
RefsBalanced == kref = (IF term_pc = "done" THEN 0 ELSE 1) + sessions

\* the stream context is not freed while a session is open or before
\* m1ur_device_term has dropped its reference, and is freed at most once
NoEarlyFree ==
    /\ (sessions > 0 \/ term_pc # "done") => teardown.kfree = 0
    /\ teardown.kfree <= 1

\* C24: m1ur_chrdev_open takes a reference exactly when it returns 0 and
\* leaves the count alone when it fails, m1ur_chrdev_release drops exactly one
\* reference, the count always is (1 before m1ur_device_term dropped its
\* reference, else 0) plus the number of open sessions, and the stream context
\* is never freed while a session is open or before m1ur_device_term has run.
C24_RefCountBalanced ==
    /\ [](RefsBalanced /\ NoEarlyFree)
    /\ [][OpenStep => /\ (ret' = OK) => (kref' = kref + 1 /\ sessions' = sessions + 1)
                      /\ (ret' # OK) => (kref' = kref /\ sessions' = sessions)]_vars
    /\ [][ReleasePutStep => (kref' = kref - 1 /\ sessions' = sessions - 1)]_vars

\* C24 witness: an open succeeded, a later open failed, m1ur_device_term ran
\* to its end, and the session is still open: the count is 1, nothing freed.
C24_Witness ==
    /\ op = "open"
    /\ ret # OK
    /\ term_pc = "done"
    /\ sessions = 1
    /\ kref = 1
    /\ teardown.kfree = 0

(***************************************************************************)
(* Claims about the order of the emitted bytes, under SpecOrder.           *)
(***************************************************************************)
\* block b is the run of Len(b) bytes of the input in that starts after offset o
BlockAt(in, b, o) ==
    /\ o + Len(b) <= Len(in)
    /\ \A k \in 1..Len(b) : in[o + k] = b[k]

\* The blocks from the k-th on are runs of consecutive bytes of the input in
\* that lie one after the other at or after offset from: each block is placed
\* at the first offset where it is found, which leaves the most room for the
\* rest.
RECURSIVE PlacedFrom(_, _, _)
PlacedFrom(in, k, from) ==
    IF k > Len(put_stream) THEN TRUE
    ELSE LET b == put_stream[k]
             at == { o \in from..(Len(in) - Len(b)) : BlockAt(in, b, o) }
         IN  /\ at # {}
             /\ PlacedFrom(in, k + 1,
                           (CHOOSE o \in at : \A e \in at : o <= e) + Len(b))

\* C23: the emitted blocks, in the order of their emission, are runs of input
\* bytes that follow one another in the input without overlap: the output is
\* the input with bytes deleted, no byte emitted twice, none out of order.
C23_DeletionOnly == PlacedFrom(FedBytes, 1, 0)

\* C23 witness: a block went out through the carry-over buffer, made of
\* carried bytes and the first bytes of the last chunk, and the same
\* invocation emitted a second block from the rest of that chunk.
C23_Witness ==
    /\ Len(fed) >= 2
    /\ Len(fed[Len(fed)]) = HalfPacket + 7 * TS_PACKET_SIZE
    /\ Len(last_put) = 2
    /\ Len(put_stream) >= 3
    /\ remain_len = 0

(***************************************************************************)
(* Claims about capture sessions, under SpecCapture.                       *)
(***************************************************************************)
\* a step of m1ur_chrdev_start_capture
StartCaptureStep ==
    /\ ctl_pc = "idle"
    /\ ctl_pc' = "idle"
    /\ op' = "start_capture"
    /\ fed' = fed
    /\ UNCHANGED <<sessions, current_system, term_pc>>

\* the bytes of the chunks handled since streaming was last started
SessionBytes == Concat(SubSeq(fed, session.fed + 1, Len(fed)))

\* no chunk was handled since streaming was last started: the carry-over is
\* empty for the first chunk of the session
FirstChunkFindsNoCarry == (Len(fed) = session.fed) => remain_len = 0

\* the blocks emitted since streaming was last started are runs of the bytes
\* handled since then, one after the other
SessionBlocksFromSession == PlacedFrom(SessionBytes, session.put + 1, 0)

\* C21: a start_capture that succeeds made exactly the accesses purge, enable
\* of the TS pins of the current system, start-streaming, in that order, with
\* the carry-over reset between the pin enable and start-streaming (a failure
\* before start-streaming leaves remain_len alone, a failure of
\* start-streaming finds it reset); the carry-over is empty when the first
\* chunk of a session is handled, and the blocks emitted in a session are made
\* of bytes handled in that session only.
C21_SessionsStartEmpty ==
    /\ [](FirstChunkFindsNoCarry /\ SessionBlocksFromSession)
    /\ [][(StartCaptureStep /\ ret' = OK)
          => /\ log' = << "it930x.purge_psb" >> \o PinsOn(current_system)
                          \o << "bus.start_streaming" >>
             /\ first_fail' = 0
             /\ remain_len' = 0
             /\ streaming']_vars
    /\ [][(StartCaptureStep /\ ret' # OK)
          => remain_len' = (IF \E j \in 1..Len(log') : log'[j] = "bus.start_streaming"
                            THEN 0 ELSE remain_len)]_vars

\* C21 witness: a session ended after a chunk that cut a packet, streaming was
\* started again, and the first chunk of the new session, which starts with
\* the rest of that packet, was handled: a block went out, made of that chunk.
C21_Witness ==
    /\ op = "start_capture"
    /\ ret = OK
    /\ streaming
    /\ session.fed >= 1
    /\ session.put >= 1
    /\ Len(fed) = session.fed + 1
    /\ Len(fed[session.fed]) = 4 * TS_PACKET_SIZE + HalfPacket
    /\ Len(fed[Len(fed)]) = HalfPacket + 7 * TS_PACKET_SIZE
    /\ Len(put_stream) = session.put + 1
    /\ Len(put_stream[Len(put_stream)]) = 7 * TS_PACKET_SIZE

====
